---- MODULE Spec2Model ----
(***************************************************************************)
(* Stale-item reminder and update-conversation engine of the Mantis        *)
(* Discord bot: the session store (utils/github_update_manager.py), the    *)
(* reply state machine (commands/dm_update_handler.py) and the delivery    *)
(* loop of a reminder cycle (utils/reminder_processor.py and               *)
(* commands/reminders.py).                                                 *)
(*                                                                         *)
(* Python objects that the code mutates in place are kept in a heap: a     *)
(* session is a dict object, its "updated_items" value is a list object,   *)
(* the store and the running reply handlers hold references to them.       *)
(***************************************************************************)
EXTENDS Integers, Sequences, FiniteSets, TLC

VARIABLES now, dicts, lists, active_sessions, handlers, last, cycle, log,
          delivery_stats

vars == <<now, dicts, lists, active_sessions, handlers, last, cycle, log,
          delivery_stats>>

(***************************************************************************)
(* Bounds of the model                                                     *)
(***************************************************************************)
MaxItems == 3
MaxUpdated == 3
MaxNow == 50
MaxNodes == 2
MaxPageItems == 2
MaxPages == 2
MaxWalkItems == 2

(***************************************************************************)
(* Program constants                                                       *)
(***************************************************************************)
session_timeout_hours == 48
max_retries == 3

Users == {"u1", "u2"}
Objs == 1..4
HandlerIds == {1, 2}

None == -1
NoContent == "<absent>"

(***************************************************************************)
(* Small helpers on sequences and sets                                     *)
(***************************************************************************)
Range(s) == {s[i] : i \in DOMAIN s}

Min(S) == CHOOSE x \in S : \A y \in S : x <= y

RECURSIVE SetToSeq(_)
SetToSeq(S) ==
    IF S = {} THEN <<>> ELSE <<Min(S)>> \o SetToSeq(S \ {Min(S)})

(***************************************************************************)
(* Heap objects                                                            *)
(***************************************************************************)
DeadDict ==
    [live |-> FALSE, github_username |-> "", update_items |-> <<>>,
     created_at |-> 0, stage |-> "", updated_items |-> 0,
     pending_update_content |-> NoContent, selected_item_index |-> None]

DeadList == [live |-> FALSE, elems |-> <<>>]

\* id of the smallest object slot that nothing refers to
FreeDict(store, hs) ==
    Min(Objs \ ({store[u] : u \in Users} \cup {hs[h].session : h \in HandlerIds}))

LiveLists(ds, store, hs) ==
    ({ds[store[u]].updated_items : u \in {v \in Users : store[v] # 0}}
      \cup {ds[hs[h].session].updated_items :
              h \in {k \in HandlerIds : hs[k].session # 0}}
      \cup {hs[h].updated_items : h \in HandlerIds}) \ {0}

FreeList(ds, store, hs) == Min(Objs \ LiveLists(ds, store, hs))

\* objects nothing refers to any more are reclaimed
Collect(st, hs) ==
    LET liveD == ({st.store[u] : u \in Users}
                    \cup {hs[h].session : h \in HandlerIds}) \ {0}
        ds == [i \in Objs |-> IF i \in liveD THEN st.dicts[i] ELSE DeadDict]
        liveL == {ds[i].updated_items : i \in liveD}
                   \cup {hs[h].updated_items : h \in HandlerIds}
    IN [dicts |-> ds,
        lists |-> [i \in Objs |-> IF i \in liveL THEN st.lists[i] ELSE DeadList],
        store |-> st.store]

(***************************************************************************)
(* A running on_dm_message task: where it is suspended and its locals      *)
(***************************************************************************)
NoUpdates ==
    [keys |-> {}, stage |-> "", selected_item_index |-> None,
     pending_update_content |-> NoContent, updated_items |-> 0]

IdleHandler ==
    [pc |-> "idle", user |-> "", session |-> 0, updated_items |-> 0,
     item_index |-> None, update_content |-> "", flow |-> "",
     updates |-> NoUpdates]

NoHandlers == [h \in HandlerIds |-> IdleHandler]

(***************************************************************************)
(* GitHubUpdateManager                                                     *)
(***************************************************************************)
Item(type, number) == [type |-> type, number |-> number]

\* update_items of a new session: the issues, then the pull requests
UpdateItems(issues, prs) ==
    [i \in 1..Len(issues) |-> Item("issue", issues[i])]
      \o [i \in 1..Len(prs) |-> Item("pr", prs[i])]

\* the timeout test taken at the limit instead of past it
ExpiredAtLimit(d, t) == t - d.created_at >= session_timeout_hours

Expired(d, t) == t - d.created_at > session_timeout_hours

cleanup_expired_sessions(st, t) ==
    [st EXCEPT !.store =
        [u \in Users |->
            IF st.store[u] # 0 /\ Expired(st.dicts[st.store[u]], t)
            THEN 0 ELSE st.store[u]]]

\* a creation that merges into the session the recipient already has
create_update_session_merging(st, hs, discord_user_id, github_username, issues, prs, t) ==
    LET s1 == cleanup_expired_sessions(st, t)
        old == s1.store[discord_user_id]
        s2 == [s1 EXCEPT !.store[discord_user_id] = 0]
        d == FreeDict(s2.store, hs)
        l == FreeList(s2.dicts, s2.store, hs)
    IN [dicts |-> [s1.dicts EXCEPT ![d] =
                      [live |-> TRUE,
                       github_username |-> github_username,
                       update_items |-> UpdateItems(issues, prs),
                       created_at |-> t,
                       stage |-> IF old # 0 THEN s1.dicts[old].stage
                                 ELSE "awaiting_initial_response",
                       updated_items |-> l,
                       pending_update_content |->
                           IF old # 0 THEN s1.dicts[old].pending_update_content
                           ELSE NoContent,
                       selected_item_index |-> None]],
        lists |-> [s1.lists EXCEPT ![l] = [live |-> TRUE, elems |-> <<>>]],
        store |-> [s1.store EXCEPT ![discord_user_id] = d]]

create_update_session(st, hs, discord_user_id, github_username, issues, prs, t) ==
    LET s1 == cleanup_expired_sessions(st, t)
        s2 == [s1 EXCEPT !.store[discord_user_id] = 0]
        d == FreeDict(s2.store, hs)
        l == FreeList(s2.dicts, s2.store, hs)
    IN [dicts |-> [s1.dicts EXCEPT ![d] =
                      [live |-> TRUE,
                       github_username |-> github_username,
                       update_items |-> UpdateItems(issues, prs),
                       created_at |-> t,
                       stage |-> "awaiting_initial_response",
                       updated_items |-> l,
                       pending_update_content |-> NoContent,
                       selected_item_index |-> None]],
        lists |-> [s1.lists EXCEPT ![l] = [live |-> TRUE, elems |-> <<>>]],
        store |-> [s1.store EXCEPT ![discord_user_id] = d]]

\* the state after the call, and the reference it returns (0 for None)
get_session(st, discord_user_id, t) ==
    IF st.store[discord_user_id] = 0
    THEN [st |-> st, ret |-> 0]
    ELSE IF Expired(st.dicts[st.store[discord_user_id]], t)
         THEN [st |-> [st EXCEPT !.store[discord_user_id] = 0], ret |-> 0]
         ELSE [st |-> st, ret |-> st.store[discord_user_id]]

\* dict.update: the keys of updates are overwritten, the others kept
update_session(st, discord_user_id, updates) ==
    IF st.store[discord_user_id] = 0
    THEN st
    ELSE [st EXCEPT !.dicts[st.store[discord_user_id]] =
            [k \in DOMAIN @ |-> IF k \in updates.keys THEN updates[k] ELSE @[k]]]

end_session(st, discord_user_id) ==
    [st EXCEPT !.store[discord_user_id] = 0]

(***************************************************************************)
(* Message texts: what str.strip, str.lower and int do on the replies the  *)
(* model sends                                                             *)
(***************************************************************************)
Numerals == <<"1", "2", "3", "4", "5">>

Inputs == {"  ", "fixed it", "Done", "yes", "0", "1", "2"}

Strip(s) ==
    CASE s = "  " -> ""
      [] OTHER -> s

Lower(s) ==
    CASE s = "Done" -> "done"
      [] OTHER -> s

\* int(user_input) raises ValueError unless the text is a numeral
IsInt(s) == s = "0" \/ s \in Range(Numerals)

IntOf(s) == IF s = "0" THEN 0 ELSE CHOOSE i \in DOMAIN Numerals : Numerals[i] = s

ContinueYes == {"yes", "y", "continue", "more", "next"}
ContinueNo == {"no", "n", "done", "finish", "stop"}
DoneWords == {"done", "finish", "stop", "no", "finished"}

\* [i for i, item in enumerate(update_items) if i not in updated_items]
remaining_items(update_items, updated) ==
    SetToSeq({i \in 0..(Len(update_items) - 1) : i \notin Range(updated)})

(***************************************************************************)
(* commands/dm_update_handler.py, cut at its suspension points.  Begin is  *)
(* on_dm_message up to its first await; Resume runs a suspended task from  *)
(* the await it is at to the next one.                                     *)
(***************************************************************************)
Suspend(h, pc) == [h EXCEPT !.pc = pc]

Out(st, h) == [st |-> st, h |-> h]

StageUpdate(stage) == [NoUpdates EXCEPT !.keys = {"stage"}, !.stage = stage]

post_update_to_github(st, h, item_index, update_content) ==
    IF item_index >= Len(st.dicts[h.session].update_items)
    THEN Out(st, Suspend(h, "send_then_end"))
    ELSE Out(st, [h EXCEPT !.pc = "typing", !.item_index = item_index,
                           !.update_content = update_content,
                           !.flow = "post_update_to_github"])

\* the first reply taken as content without the test for blank text
handle_initial_response_takes_blank(st, h, content) ==
    LET update_items == st.dicts[h.session].update_items
        update_content == Strip(content)
    IN IF update_items = <<>>
       THEN Out(st, Suspend(h, "send_then_end"))
       ELSE IF Len(update_items) = 1
       THEN post_update_to_github(st, h, 0, update_content)
       ELSE Out(update_session(st, h.user,
                    [NoUpdates EXCEPT
                        !.keys = {"stage", "pending_update_content"},
                        !.stage = "awaiting_item_selection_for_update",
                        !.pending_update_content = update_content]),
                Suspend(h, "send_then_return"))

handle_initial_response(st, h, content) ==
    LET update_items == st.dicts[h.session].update_items
        update_content == Strip(content)
    IN IF update_items = <<>>
       THEN Out(st, Suspend(h, "send_then_end"))
       ELSE IF update_content = ""
       THEN Out(st, Suspend(h, "send_then_return"))
       ELSE IF Len(update_items) = 1
       THEN post_update_to_github(st, h, 0, update_content)
       ELSE Out(update_session(st, h.user,
                    [NoUpdates EXCEPT
                        !.keys = {"stage", "pending_update_content"},
                        !.stage = "awaiting_item_selection_for_update",
                        !.pending_update_content = update_content]),
                Suspend(h, "send_then_return"))

handle_item_selection(st, h, content) ==
    LET update_items == st.dicts[h.session].update_items
        user_input == Strip(content)
    IN IF IsInt(user_input) /\ 1 <= IntOf(user_input)
                            /\ IntOf(user_input) <= Len(update_items)
       THEN Out(st, [h EXCEPT !.pc = "send_then_update",
                       !.updates = [NoUpdates EXCEPT
                           !.keys = {"stage", "selected_item_index"},
                           !.stage = "awaiting_update_content",
                           !.selected_item_index = IntOf(user_input) - 1]])
       ELSE Out(st, Suspend(h, "send_then_return"))

handle_update_content(st, h, content) ==
    LET update_items == st.dicts[h.session].update_items
        selected_index == st.dicts[h.session].selected_item_index
        update_content == Strip(content)
    IN IF selected_index = None \/ selected_index >= Len(update_items)
       THEN Out(st, Suspend(h, "send_then_end"))
       ELSE IF update_content = ""
       THEN Out(st, Suspend(h, "send_then_return"))
       ELSE Out(st, [h EXCEPT !.pc = "typing", !.item_index = selected_index,
                              !.update_content = update_content,
                              !.flow = "handle_update_content"])

send_item_selection_prompt(st, h) ==
    LET update_items == st.dicts[h.session].update_items
        updated_items == st.lists[st.dicts[h.session].updated_items].elems
    IN IF remaining_items(update_items, updated_items) = <<>>
       THEN Out(st, Suspend(h, "send_then_end"))
       ELSE Out(st, [h EXCEPT !.pc = "send_then_update",
                              !.updates = StageUpdate("awaiting_item_selection")])

\* the choice taking only the 'yes' words, any other word asked again
handle_continue_choice_yes_only(st, h, content) ==
    LET user_input == Strip(Lower(content))
    IN IF user_input \in ContinueYes
       THEN send_item_selection_prompt(st, h)
       ELSE Out(st, Suspend(h, "send_then_return"))

handle_continue_choice(st, h, content) ==
    LET user_input == Strip(Lower(content))
    IN IF user_input \in ContinueYes
       THEN send_item_selection_prompt(st, h)
       ELSE IF user_input \in ContinueNo
       THEN Out(st, Suspend(h, "send_then_end"))
       ELSE Out(st, Suspend(h, "send_then_return"))

handle_item_selection_for_update(st, h, content) ==
    LET update_items == st.dicts[h.session].update_items
        stored == st.dicts[h.session].pending_update_content
        pending_update == IF stored = NoContent THEN "" ELSE stored
        user_input == Strip(content)
    IN IF IsInt(user_input) /\ 1 <= IntOf(user_input)
                            /\ IntOf(user_input) <= Len(update_items)
       THEN post_update_to_github(st, h, IntOf(user_input) - 1, pending_update)
       ELSE Out(st, Suspend(h, "send_then_return"))

\* the single-item test made on all the items instead of the remaining ones
handle_next_update_or_done_counts_all(st, h, content) ==
    LET user_input == Lower(Strip(content))
        update_items == st.dicts[h.session].update_items
        updated_items == st.lists[st.dicts[h.session].updated_items].elems
        update_content == Strip(content)
        remaining == remaining_items(update_items, updated_items)
    IN IF user_input \in DoneWords
       THEN Out(st, Suspend(h, "send_then_end"))
       ELSE IF update_content = ""
       THEN Out(st, Suspend(h, "send_then_return"))
       ELSE IF remaining = <<>>
       THEN Out(st, Suspend(h, "send_then_end"))
       ELSE IF Len(update_items) = 1
       THEN post_update_to_github(st, h, remaining[1], update_content)
       ELSE Out(update_session(st, h.user,
                    [NoUpdates EXCEPT
                        !.keys = {"stage", "pending_update_content"},
                        !.stage = "awaiting_item_selection_for_update",
                        !.pending_update_content = update_content]),
                Suspend(h, "send_then_return"))

handle_next_update_or_done(st, h, content) ==
    LET user_input == Lower(Strip(content))
        update_items == st.dicts[h.session].update_items
        updated_items == st.lists[st.dicts[h.session].updated_items].elems
        update_content == Strip(content)
        remaining == remaining_items(update_items, updated_items)
    IN IF user_input \in DoneWords
       THEN Out(st, Suspend(h, "send_then_end"))
       ELSE IF update_content = ""
       THEN Out(st, Suspend(h, "send_then_return"))
       ELSE IF remaining = <<>>
       THEN Out(st, Suspend(h, "send_then_end"))
       ELSE IF Len(remaining) = 1
       THEN post_update_to_github(st, h, remaining[1], update_content)
       ELSE Out(update_session(st, h.user,
                    [NoUpdates EXCEPT
                        !.keys = {"stage", "pending_update_content"},
                        !.stage = "awaiting_item_selection_for_update",
                        !.pending_update_content = update_content]),
                Suspend(h, "send_then_return"))

handle_update_conversation(st, h, content) ==
    LET stage == st.dicts[h.session].stage
    IN CASE stage = "awaiting_initial_response" ->
                handle_initial_response(st, h, content)
         [] stage = "awaiting_item_selection" ->
                handle_item_selection(st, h, content)
         [] stage = "awaiting_item_selection_for_update" ->
                handle_item_selection_for_update(st, h, content)
         [] stage = "awaiting_update_content" ->
                handle_update_content(st, h, content)
         [] stage = "awaiting_continue_choice" ->
                handle_continue_choice(st, h, content)
         [] stage = "awaiting_next_update_or_done" ->
                handle_next_update_or_done(st, h, content)
         [] OTHER -> Out(st, Suspend(h, "send_then_end"))

\* on_dm_message for a direct message of a human author, to its first await
Begin(st, author, content, t) ==
    LET g == get_session(st, author, t)
    IN IF g.ret = 0
       THEN Out(g.st, IdleHandler)
       ELSE handle_update_conversation(
                g.st, [IdleHandler EXCEPT !.user = author, !.session = g.ret],
                content)

NoPost == [made |-> FALSE, index |-> None, number |-> 0, body |-> "", ok |-> FALSE]

\* the index appended whether or not the comment was posted
PostCommentMarksAlways(st, h, post_ok) ==
    LET d == st.dicts[h.session]
        l == d.updated_items
        post == [made |-> TRUE, index |-> h.item_index,
                 number |-> d.update_items[h.item_index + 1].number,
                 body |-> h.update_content, ok |-> post_ok]
    IN [st |-> [st EXCEPT !.lists[l].elems = Append(@, h.item_index)],
        h |-> IF post_ok
              THEN [h EXCEPT !.pc = "send_result", !.updated_items = l]
              ELSE Suspend(h, "send_then_return"),
        post |-> post]

\* the part of handle_update_content and post_update_to_github that runs
\* once the typing indicator is up: the comment is posted, and on success
\* the index is appended to the session's own list object
PostComment(st, h, post_ok) ==
    LET d == st.dicts[h.session]
        l == d.updated_items
        post == [made |-> TRUE, index |-> h.item_index,
                 number |-> d.update_items[h.item_index + 1].number,
                 body |-> h.update_content, ok |-> post_ok]
    IN IF post_ok
       THEN [st |-> [st EXCEPT !.lists[l].elems = Append(@, h.item_index)],
             h |-> [h EXCEPT !.pc = "send_result", !.updated_items = l],
             post |-> post]
       ELSE [st |-> st, h |-> Suspend(h, "send_then_return"), post |-> post]

\* both posting paths moving to the stage of the selection-first path
AfterResultContinueChoice(st, h) ==
    LET update_items == st.dicts[h.session].update_items
        updated_items == st.lists[h.updated_items].elems
    IN IF remaining_items(update_items, updated_items) # <<>>
       THEN [h EXCEPT !.pc = "send_then_update",
               !.updates = [NoUpdates EXCEPT
                   !.keys = {"stage", "updated_items"},
                   !.stage = "awaiting_continue_choice",
                   !.updated_items = h.updated_items]]
       ELSE Suspend(h, "send_then_end")

\* after the result message: is anything left to update?
AfterResult(st, h) ==
    LET update_items == st.dicts[h.session].update_items
        updated_items == st.lists[h.updated_items].elems
    IN IF remaining_items(update_items, updated_items) # <<>>
       THEN [h EXCEPT !.pc = "send_then_update",
               !.updates = [NoUpdates EXCEPT
                   !.keys = {"stage", "updated_items"},
                   !.stage = IF h.flow = "handle_update_content"
                             THEN "awaiting_continue_choice"
                             ELSE "awaiting_next_update_or_done",
                   !.updated_items = h.updated_items]]
       ELSE Suspend(h, "send_then_end")

\* ok: the await the task is suspended at completes (TRUE) or raises (FALSE)
Resume(st, h, ok, post_ok) ==
    IF h.pc = "apology"
    THEN [st |-> IF ok THEN end_session(st, h.user) ELSE st,
          h |-> IdleHandler, post |-> NoPost]
    ELSE IF ~ok
    THEN [st |-> st, h |-> Suspend(h, "apology"), post |-> NoPost]
    ELSE CASE h.pc = "send_then_end" ->
                [st |-> end_session(st, h.user), h |-> IdleHandler, post |-> NoPost]
           [] h.pc = "send_then_return" ->
                [st |-> st, h |-> IdleHandler, post |-> NoPost]
           [] h.pc = "send_then_update" ->
                [st |-> update_session(st, h.user, h.updates),
                 h |-> IdleHandler, post |-> NoPost]
           [] h.pc = "typing" -> PostComment(st, h, post_ok)
           [] h.pc = "send_result" ->
                [st |-> st, h |-> AfterResult(st, h), post |-> NoPost]

(***************************************************************************)
(* on_dm_message run from the arrival of the message to the end of its     *)
(* task, with nothing else running in between.  fail_at numbers the await  *)
(* of the stage handler that raises (0: none does); the comment post and   *)
(* the apology send succeed or fail as post_ok and apology_ok say.         *)
(***************************************************************************)
RECURSIVE RunTask(_, _, _, _, _, _, _)
RunTask(st, h, k, fail_at, post_ok, apology_ok, acc) ==
    IF h.pc = "idle"
    THEN [st |-> st, post |-> acc.post, raised |-> acc.raised,
          escaped |-> acc.escaped]
    ELSE LET ok == IF h.pc = "apology" THEN apology_ok ELSE k # fail_at
             r == Resume(st, h, ok, post_ok)
         IN RunTask(r.st, r.h, k + 1, fail_at, post_ok, apology_ok,
                    [post |-> IF r.post.made THEN r.post ELSE acc.post,
                     raised |-> acc.raised \/ r.h.pc = "apology",
                     escaped |-> acc.escaped \/ (h.pc = "apology" /\ ~ok)])

on_dm_message(st, author, content, t, fail_at, post_ok, apology_ok) ==
    LET b == Begin(st, author, content, t)
    IN [routed |-> b.h.pc # "idle"]
         @@ RunTask(b.st, b.h, 1, fail_at, post_ok, apology_ok,
                    [post |-> NoPost, raised |-> FALSE, escaped |-> FALSE])

(***************************************************************************)
(* What an observer sees of a recipient's session                          *)
(***************************************************************************)
NoSession ==
    [exists |-> FALSE, github_username |-> "", update_items |-> <<>>,
     created_at |-> 0, stage |-> "", updated_items |-> <<>>,
     pending_update_content |-> NoContent, selected_item_index |-> None]

SessionOf(st, u) ==
    IF st.store[u] = 0
    THEN NoSession
    ELSE LET d == st.dicts[st.store[u]]
         IN [exists |-> TRUE, github_username |-> d.github_username,
             update_items |-> d.update_items, created_at |-> d.created_at,
             stage |-> d.stage,
             updated_items |-> st.lists[d.updated_items].elems,
             pending_update_content |-> d.pending_update_content,
             selected_item_index |-> d.selected_item_index]

Heap == [dicts |-> dicts, lists |-> lists, store |-> active_sessions]

Session(u) == SessionOf(Heap, u)

Unresolved(s) == remaining_items(s.update_items, s.updated_items)

\* the last operation and what it did, for stating the properties
LastRec(kind, user, content, r) ==
    [kind |-> kind, user |-> user, content |-> content, routed |-> r.routed,
     post |-> r.post, raised |-> r.raised, escaped |-> r.escaped]

NoRun == [routed |-> FALSE, post |-> NoPost, raised |-> FALSE, escaped |-> FALSE]

(***************************************************************************)
(* State, and the operations of the conversation taken one at a time       *)
(***************************************************************************)
GithubOf(u) == IF u = "u1" THEN "gh1" ELSE "gh2"

IssueNumbers(n) == [i \in 1..n |-> 10 * i]
PRNumbers(first, n) == [i \in 1..n |-> 10 * (first + i)]

\* the bundles of a reminder: one issue, or some issues and a pull request
Bundles ==
    {[issues |-> IssueNumbers(IF n = 1 THEN 1 ELSE n - 1),
      prs |-> PRNumbers(n - 1, IF n = 1 THEN 0 ELSE 1)] : n \in 1..MaxItems}

\* the recipients whose conversation is followed reply by reply
Talkers == {"u1"}

IdleCycle == [variant |-> "none", queue |-> <<>>, all |-> <<>>, target |-> ""]

NoStats ==
    [dm_success |-> 0, dm_failed |-> 0, channel_sent |-> 0,
     channel_failed |-> 0, no_mapping |-> 0]

Init ==
    /\ now = 0
    /\ dicts = [i \in Objs |-> DeadDict]
    /\ lists = [i \in Objs |-> DeadList]
    /\ active_sessions = [u \in Users |-> 0]
    /\ handlers = NoHandlers
    /\ last = LastRec("init", "", "", NoRun)
    /\ cycle = IdleCycle
    /\ log = <<>>
    /\ delivery_stats = NoStats

SetHeap(st) ==
    /\ dicts' = st.dicts
    /\ lists' = st.lists
    /\ active_sessions' = st.store

WithinBounds(st) == \A i \in Objs : Len(st.lists[i].elems) <= MaxUpdated

\* what the chat platform and the tracker do during one task: the await that
\* raises, whether the comment post succeeds, whether the apology is sent
\* (a post is reached only past the first await, a third await only after a
\* successful post)
Outcomes ==
    {<<0, TRUE, TRUE>>, <<0, FALSE, TRUE>>}
      \cup {<<1, TRUE, a>> : a \in BOOLEAN}
      \cup {<<2, p, a>> : <<p, a>> \in BOOLEAN \X BOOLEAN}
      \cup {<<3, TRUE, a>> : a \in BOOLEAN}

\* GitHubUpdateManager.create_update_session, called with a bundle
CreateUpdateSessionWith(u, bundles) ==
    /\ \E b \in bundles :
          /\ SetHeap(Collect(create_update_session(
                 Heap, handlers, u, GithubOf(u), b.issues, b.prs, now), handlers))
          /\ last' = LastRec("create", u, "", NoRun)
    /\ UNCHANGED <<now, handlers, cycle, log, delivery_stats>>

\* a direct message of a human author arrives and its task runs to its end
ReplyWith(u, inputs, outcomes) ==
    /\ \E content \in inputs, o \in outcomes :
          LET r == on_dm_message(Heap, u, content, now, o[1], o[2], o[3])
              fin == Collect(r.st, handlers)
          IN /\ WithinBounds(fin)
             /\ SetHeap(fin)
             /\ last' = LastRec("reply", u, content, r)
    /\ UNCHANGED <<now, handlers, cycle, log, delivery_stats>>

CreateUpdateSession(u) == CreateUpdateSessionWith(u, Bundles)

Reply(u) == ReplyWith(u, Inputs, Outcomes)

Next ==
    \/ \E u \in Talkers : CreateUpdateSession(u)
    \/ \E u \in Talkers : Reply(u)

Spec == Init /\ [][Next]_vars

\* the same conversation when every chat send goes through
Delivered == {<<0, TRUE, TRUE>>, <<0, FALSE, TRUE>>}

ReplyDelivered(u) == ReplyWith(u, Inputs, Delivered)

NextDelivered ==
    \/ \E u \in Talkers : CreateUpdateSession(u)
    \/ \E u \in Talkers : ReplyDelivered(u)

SpecDelivered == Init /\ [][NextDelivered]_vars

(***************************************************************************)
(* The stage handlers as functions of a session and a reply: the session   *)
(* is drawn from the sessions a stage can be entered with, and one reply   *)
(* is applied to it.                                                       *)
(***************************************************************************)
Stages ==
    {"awaiting_initial_response", "awaiting_item_selection",
     "awaiting_item_selection_for_update", "awaiting_update_content",
     "awaiting_continue_choice", "awaiting_next_update_or_done"}

RECURSIVE SeqsUpTo(_, _)
SeqsUpTo(S, n) ==
    IF n = 0 THEN {<<>>}
    ELSE LET shorter == SeqsUpTo(S, n - 1)
         IN shorter \cup {Append(q, x) : q \in shorter, x \in S}

\* update_items, stage, resolved indices, pending content, selected index
DrawnSessions ==
    {d \in [update_items : {UpdateItems(b.issues, b.prs) : b \in Bundles},
            stage : Stages,
            updated : SeqsUpTo(0..(MaxItems - 1), MaxUpdated - 1),
            pending : {NoContent, "fixed it"},
            selected : {None} \cup (0..(MaxItems - 1))] :
        /\ Range(d.updated) \subseteq 0..(Len(d.update_items) - 1)
        /\ remaining_items(d.update_items, d.updated) # <<>>
        /\ d.selected < Len(d.update_items)
        /\ d.stage = "awaiting_initial_response"
              => d.updated = <<>> /\ d.pending = NoContent /\ d.selected = None
        /\ d.stage = "awaiting_item_selection_for_update" => d.pending # NoContent
        /\ d.stage = "awaiting_update_content" => d.selected # None}

InitStages ==
    /\ now = 0
    /\ \E d \in DrawnSessions :
          /\ dicts = [i \in Objs |->
                        IF i = 1
                        THEN [live |-> TRUE, github_username |-> GithubOf("u1"),
                              update_items |-> d.update_items, created_at |-> 0,
                              stage |-> d.stage, updated_items |-> 1,
                              pending_update_content |-> d.pending,
                              selected_item_index |-> d.selected]
                        ELSE DeadDict]
          /\ lists = [i \in Objs |->
                        IF i = 1 THEN [live |-> TRUE, elems |-> d.updated]
                        ELSE DeadList]
    /\ active_sessions = [u \in Users |-> IF u = "u1" THEN 1 ELSE 0]
    /\ handlers = NoHandlers
    /\ last = LastRec("drawn", "u1", "", NoRun)
    /\ cycle = IdleCycle
    /\ log = <<>>
    /\ delivery_stats = NoStats

FirstReply(u) == last.kind = "drawn" /\ Reply(u)

NextStages == \E u \in Talkers : FirstReply(u)

SpecStages == InitStages /\ [][NextStages]_vars

(***************************************************************************)
(* Properties of the conversation, replies processed one at a time         *)
(***************************************************************************)
\* the last step was a reply that was routed into a session and whose task
\* ended without an uncaught error
Handled(l) == l.kind = "reply" /\ l.routed /\ ~l.raised

PostFailed(l) == Handled(l) /\ l.post.made /\ ~l.post.ok

PostSucceeded(l) == Handled(l) /\ l.post.made /\ l.post.ok

\* sending the last reply once more posts the same text on the same item
ResubmitPostsAgain ==
    LET r == on_dm_message(Heap, last.user, last.content, now, 0, TRUE, TRUE)
    IN /\ r.post.made
       /\ r.post.index = last.post.index
       /\ r.post.body = last.post.body

\* C4: when the comment post of a reply fails (and the task ends without an
\* uncaught error), the recipient's session is exactly what it was before
\* the reply: same stage, pending content, selected index and resolved
\* items, still in the store; and submitting the same reply again attempts
\* the same post on the same item.
PostFailureLeavesSession ==
    /\ [][\A u \in Users :
             (PostFailed(last') /\ last'.user = u)
                => /\ Session(u).exists
                   /\ Session(u)' = Session(u)]_vars
    /\ [](PostFailed(last) => ResubmitPostsAgain)

PostFailureSeen ==
    /\ PostFailed(last)
    /\ Session(last.user).exists
    /\ Session(last.user).stage = "awaiting_item_selection_for_update"
    /\ Session(last.user).updated_items # <<>>

StageAfterPost(stage) ==
    IF stage = "awaiting_update_content"
    THEN "awaiting_continue_choice"
    ELSE "awaiting_next_update_or_done"

\* C5: when the comment post for item index i succeeds (and the task ends
\* without an uncaught error), the session is removed iff no unresolved item
\* remains; otherwise it stays, i is among its resolved items, and its stage
\* is awaiting_continue_choice when the reply came in awaiting_update_content
\* and awaiting_next_update_or_done when it came in one of the three stages
\* where the content precedes the selection.
PostSuccessAdvances ==
    [][\A u \in Users, i \in 0..MaxItems :
          (PostSucceeded(last') /\ last'.user = u /\ last'.post.index = i)
             => LET left == remaining_items(Session(u).update_items,
                                Append(Session(u).updated_items, i))
                IN /\ Session(u).stage \in
                        {"awaiting_update_content", "awaiting_initial_response",
                         "awaiting_item_selection_for_update",
                         "awaiting_next_update_or_done"}
                   /\ (left = <<>>) <=> ~Session(u)'.exists
                   /\ left # <<>> =>
                        /\ Session(u)'.updated_items
                              = Append(Session(u).updated_items, i)
                        /\ Session(u)'.stage = StageAfterPost(Session(u).stage)
                        /\ Unresolved(Session(u)') = left]_vars

PostSuccessSeen ==
    /\ PostSucceeded(last)
    /\ Session(last.user).exists
    /\ Session(last.user).stage = "awaiting_continue_choice"
    /\ Len(Unresolved(Session(last.user))) = 1

\* a non-empty reply that the stage takes as the text of an update
IsNewContent(s, content) ==
    /\ Strip(content) # ""
    /\ \/ s.stage = "awaiting_initial_response"
       \/ /\ s.stage = "awaiting_next_update_or_done"
          /\ Lower(Strip(content)) \notin DoneWords

\* C6: a non-empty reply in awaiting_initial_response, or a non-empty reply
\* other than a 'done' word in awaiting_next_update_or_done (the task ending
\* without an uncaught error): with exactly one unresolved item the text is
\* posted for that item; with more than one the text becomes the pending
\* content, the stage becomes awaiting_item_selection_for_update and nothing
\* is posted.
ContentThenSelection ==
    [][\A u \in Users :
          (Handled(last') /\ last'.user = u /\ IsNewContent(Session(u), last'.content))
             => LET left == Unresolved(Session(u))
                IN /\ Len(left) = 1 =>
                        /\ last'.post.made
                        /\ last'.post.index = left[1]
                        /\ last'.post.body = Strip(last'.content)
                   /\ Len(left) > 1 =>
                        /\ ~last'.post.made
                        /\ Session(u)'.stage = "awaiting_item_selection_for_update"
                        /\ Session(u)'.pending_update_content = Strip(last'.content)
                        /\ Session(u)'.updated_items = Session(u).updated_items]_vars

ContentStoredSeen ==
    /\ Handled(last)
    /\ ~last.post.made
    /\ Session(last.user).stage = "awaiting_item_selection_for_update"
    /\ Session(last.user).pending_update_content = Strip(last.content)
    /\ Len(Session(last.user).updated_items) = 1
    /\ Len(Unresolved(Session(last.user))) = 2

\* a reply that is the 1-based index of an item not yet resolved
SelectsRemaining(s, content) ==
    /\ IsInt(Strip(content))
    /\ IntOf(Strip(content)) - 1 \in Range(Unresolved(s))

\* C7: in awaiting_item_selection and awaiting_item_selection_for_update a
\* reply that is not the 1-based index of a remaining item (the index of an
\* item already updated included) posts nothing and leaves the session as it
\* was.
OnlyRemainingSelectable ==
    [][\A u \in Users :
          (/\ Handled(last')
           /\ last'.user = u
           /\ Session(u).stage \in {"awaiting_item_selection",
                                    "awaiting_item_selection_for_update"}
           /\ ~SelectsRemaining(Session(u), last'.content))
             => /\ ~last'.post.made
                /\ Session(u)' = Session(u)]_vars

\* C8: after a reply whose processing ended in an uncaught error, the
\* recipient has no session in the store.
ErrorDestroysSession ==
    (last.kind = "reply" /\ last.raised) => ~Session(last.user).exists

(***************************************************************************)
(* utils/network.py: retry_with_exponential_backoff.  outs[k] is what the  *)
(* k-th invocation of the wrapped call does: it returns ("ok"), raises a   *)
(* requests/aiohttp error carrying an HTTP status (0: none), or raises any *)
(* other exception.                                                        *)
(***************************************************************************)
Ok == [kind |-> "ok", status |-> 0]
Raises == [kind |-> "other", status |-> 0]
HttpError(status) == [kind |-> "requests", status |-> status]

\* str(e): the text of the exception a call raised
ErrorText(o) ==
    IF o.kind = "other" THEN "unexpected error"
    ELSE CASE o.status = 0 -> "connection error"
           [] o.status = 401 -> "401 Client Error"
           [] o.status = 403 -> "403 Client Error"
           [] o.status = 404 -> "404 Client Error"
           [] o.status = 429 -> "429 Client Error"
           [] o.status = 500 -> "500 Server Error"
           [] o.status = 502 -> "502 Server Error"
           [] o.status = 503 -> "503 Server Error"

\* (success, result, error), with the number of calls made and the sleeps
\* taken between them
RetryResult(success, error, calls) ==
    [success |-> success, result |-> IF success THEN "result" ELSE "None",
     error |-> error, calls |-> calls, delays |-> <<>>]

\* base_delay * 2^attempt + jitter after a rate limit or an unavailable
\* server, base_delay * 1.5^attempt + jitter after another requests error,
\* base_delay * 1.5^attempt after any other exception
Delay(o, attempt) ==
    [factor |-> IF o.kind = "requests" /\ o.status \in {429, 502, 503}
                THEN "2" ELSE "1.5",
     jitter |-> o.kind = "requests",
     attempt |-> attempt]

\* one call more than the budget allows
RetryFromOneMore(outs, attempt, retries) ==
    LET RECURSIVE Go(_)
        Go(a) ==
            IF a > retries \/ a >= Len(outs)
            THEN RetryResult(FALSE, "Max retries exceeded", a)
            ELSE LET o == outs[a + 1]
                 IN IF o.kind = "ok"
                    THEN RetryResult(TRUE, "", a + 1)
                    ELSE IF a = retries
                    THEN RetryResult(FALSE, ErrorText(o), a + 1)
                    ELSE IF o.kind = "requests" /\ o.status = 401
                    THEN RetryResult(FALSE,
                             "Missing or invalid Authorization header", a + 1)
                    ELSE IF o.kind = "requests" /\ o.status = 403
                    THEN RetryResult(FALSE, "Invalid API key", a + 1)
                    ELSE IF o.kind = "requests" /\ o.status = 500
                    THEN RetryResult(FALSE, "Server configuration error", a + 1)
                    ELSE [Go(a + 1) EXCEPT !.delays = <<Delay(o, a)>> \o @]
    IN Go(attempt)

RECURSIVE RetryFrom(_, _, _)
RetryFrom(outs, attempt, retries) ==
    IF attempt >= retries
    THEN RetryResult(FALSE, "Max retries exceeded", attempt)
    ELSE LET o == outs[attempt + 1]
         IN IF o.kind = "ok"
            THEN RetryResult(TRUE, "", attempt + 1)
            ELSE IF attempt = retries - 1
            THEN RetryResult(FALSE, ErrorText(o), attempt + 1)
            ELSE IF o.kind = "requests" /\ o.status = 401
            THEN RetryResult(FALSE, "Missing or invalid Authorization header",
                             attempt + 1)
            ELSE IF o.kind = "requests" /\ o.status = 403
            THEN RetryResult(FALSE, "Invalid API key", attempt + 1)
            ELSE IF o.kind = "requests" /\ o.status = 500
            THEN RetryResult(FALSE, "Server configuration error", attempt + 1)
            ELSE [RetryFrom(outs, attempt + 1, retries)
                     EXCEPT !.delays = <<Delay(o, attempt)>> \o @]

retry_with_exponential_backoff(outs, retries) == RetryFrom(outs, 0, retries)

\* a chat send raises discord errors, which are neither requests nor aiohttp
\* errors: it goes through on the first, second or third call, or never
SendScripts ==
    {[k \in 1..max_retries |-> IF k < first THEN Raises ELSE Ok] :
        first \in 1..(max_retries + 1)}

send_dm_to_user(outs) == retry_with_exponential_backoff(outs, max_retries)

send_channel_message(outs) == retry_with_exponential_backoff(outs, max_retries)

(***************************************************************************)
(* The delivery loop of a reminder cycle: ReminderProcessor.process_       *)
(* reminders (scheduler) and the send-reminders command                    *)
(***************************************************************************)
GithubUsers == {"gh1", "gh2"}

\* the Discord user a tracker login resolves to, when it resolves
DiscordId(g) == IF g = "gh1" THEN "u1" ELSE "u2"
DiscordName(g) == IF g = "gh1" THEN "alice" ELSE "bob"

\* the header with the should_mention flag ignored
create_channel_message_content_always_mentions(discord_username, should_mention, discord_user_obj, found_again) ==
    IF discord_username # ""
    THEN IF discord_user_obj \/ found_again
         THEN "user_mention"
         ELSE "at_username_text"
    ELSE "github_identity"

\* the header of the channel copy, by the kind of its first token
create_channel_message_content(discord_username, should_mention, discord_user_obj, found_again) ==
    IF discord_username # "" /\ should_mention
    THEN IF discord_user_obj \/ found_again
         THEN "user_mention"
         ELSE "at_username_text"
    ELSE IF discord_username # ""
    THEN "username_plain"
    ELSE "github_identity"

Event(ev, g, ok, calls, header) ==
    [ev |-> ev, github_username |-> g, ok |-> ok, calls |-> calls,
     header |-> header, discord_username |-> ""]

ChannelEvent(g, sent, header, discord_username) ==
    [Event("channel", g, sent.success, sent.calls, header)
        EXCEPT !.discord_username = discord_username]

\* counters that count the sends that went through only
BumpSuccessOnly(stats, key) ==
    IF key \in {"dm_failed", "channel_failed"} THEN stats
    ELSE [stats EXCEPT ![key] = @ + 1]

Bump(stats, key) == [stats EXCEPT ![key] = @ + 1]

\* what the member mapping, the user lookups, the direct send and the
\* channel send do while one recipient is handled
Environments ==
    {[discord_username |-> n, found |-> f, found_again |-> a,
      found_for_target |-> ft, dm |-> d, channel |-> c] :
        n \in {"", "mapped"}, f \in BOOLEAN, a \in BOOLEAN, ft \in BOOLEAN,
        d \in SendScripts, c \in SendScripts}

\* the combinations that differ in what the loop body can observe
Canonical(env, targeted) ==
    /\ env.discord_username = "" => ~env.found /\ ~env.found_again
    /\ (env.found \/ env.discord_username = "")
          => env.found_again = env.found
    /\ ~env.found => env.dm = [k \in 1..max_retries |-> Ok]
    /\ (~targeted \/ env.discord_username = "") => env.found_for_target

\* the channel copy sent only as a fallback for a failed direct send
ChannelCopyOnlyFallback(stats, g, env, dm_success, discord_user) ==
    LET header == create_channel_message_content(
                      env.discord_username, TRUE, discord_user, env.found_again)
        sent == send_channel_message(env.channel)
    IN IF dm_success
       THEN [stats |-> stats, events |-> <<Event("sleep", g, TRUE, 0, "")>>]
       ELSE [stats |-> Bump(stats, IF sent.success THEN "channel_sent"
                                                   ELSE "channel_failed"),
             events |-> <<ChannelEvent(g, sent, header, env.discord_username)>>]

\* the part of the loop body the two variants share, after the direct send
ChannelCopy(stats, g, env, dm_success, discord_user) ==
    LET should_mention == ~dm_success
        header == create_channel_message_content(
                      env.discord_username, should_mention, discord_user,
                      env.found_again)
        sent == send_channel_message(env.channel)
    IN [stats |-> Bump(stats, IF sent.success THEN "channel_sent"
                                              ELSE "channel_failed"),
        events |-> <<ChannelEvent(g, sent, header, env.discord_username)>>
                     \o (IF dm_success
                         THEN <<Event("sleep", g, TRUE, 0, "")>> ELSE <<>>)]

\* one iteration of "for github_username, items in all_user_reminders"
\* in ReminderProcessor.process_reminders
process_reminders_body(st, hs, stats, entry, target, env, t) ==
    LET g == entry.github_username
        skipped == [st |-> st, stats |-> stats,
                    events |-> <<Event("skip", g, TRUE, 0, "")>>]
    IN IF entry.issues = <<>> /\ entry.prs = <<>>
       THEN skipped
       ELSE IF target # "" /\ (env.discord_username = "" \/ ~env.found_for_target
                                 \/ DiscordId(g) # target)
       THEN skipped
       ELSE IF env.discord_username = ""
       THEN LET c == ChannelCopy(Bump(stats, "no_mapping"), g, env, FALSE, FALSE)
            IN [st |-> st, stats |-> c.stats, events |-> c.events]
       ELSE IF ~env.found
       THEN LET c == ChannelCopy(stats, g, env, FALSE, FALSE)
            IN [st |-> st, stats |-> c.stats, events |-> c.events]
       ELSE LET dm == send_dm_to_user(env.dm)
                c == ChannelCopy(Bump(stats, IF dm.success THEN "dm_success"
                                                           ELSE "dm_failed"),
                                 g, env, dm.success, TRUE)
            IN [st |-> IF dm.success
                       THEN create_update_session(st, hs, DiscordId(g), g,
                                                  entry.issues, entry.prs, t)
                       ELSE st,
                stats |-> c.stats,
                events |-> <<Event("dm", g, dm.success, dm.calls, "")>>
                             \o (IF dm.success
                                 THEN <<Event("session", g, TRUE, 0, "")>>
                                 ELSE <<>>)
                             \o c.events]

\* the same iteration in the send-reminders command
send_reminders_body(st, stats, entry, env) ==
    LET g == entry.github_username
    IN IF entry.issues = <<>> /\ entry.prs = <<>>
       THEN [st |-> st, stats |-> stats,
             events |-> <<Event("skip", g, TRUE, 0, "")>>]
       ELSE IF env.discord_username = ""
       THEN LET c == ChannelCopy(Bump(stats, "no_mapping"), g, env, FALSE, FALSE)
            IN [st |-> st, stats |-> c.stats, events |-> c.events]
       ELSE IF ~env.found
       THEN LET c == ChannelCopy(stats, g, env, FALSE, FALSE)
            IN [st |-> st, stats |-> c.stats, events |-> c.events]
       ELSE LET dm == send_dm_to_user(env.dm)
                c == ChannelCopy(Bump(stats, IF dm.success THEN "dm_success"
                                                           ELSE "dm_failed"),
                                 g, env, dm.success, TRUE)
            IN [st |-> st, stats |-> c.stats,
                events |-> <<Event("dm", g, dm.success, dm.calls, "")>>
                             \o c.events]

\* the bundle every recipient of a cycle gets: issues and one pull request
CycleBundle ==
    [issues |-> IssueNumbers(MaxItems - 1), prs |-> PRNumbers(MaxItems - 1, 1)]

\* all_user_reminders, in insertion order: distinct logins with their items
Reminders ==
    {[i \in 1..Len(q) |->
         [github_username |-> q[i], issues |-> CycleBundle.issues,
          prs |-> CycleBundle.prs]] :
       q \in {p \in SeqsUpTo(GithubUsers, Cardinality(GithubUsers)) :
                 p # <<>> /\ Cardinality(Range(p)) = Len(p)}}

Logins(q) == [i \in 1..Len(q) |-> q[i].github_username]

\* a cycle starts: the items have been fetched and grouped per recipient
StartCycle ==
    /\ cycle.variant = "none"
    /\ \E q \in Reminders, variant \in {"process_reminders", "send_reminders"},
          target \in {""} \cup Users :
          /\ variant = "send_reminders" => target = ""
          /\ cycle' = [variant |-> variant, queue |-> q, all |-> Logins(q),
                       target |-> target]
    /\ log' = <<>>
    /\ delivery_stats' = NoStats
    /\ UNCHANGED <<now, dicts, lists, active_sessions, handlers, last>>

DeliverProcessReminders ==
    /\ cycle.variant = "process_reminders"
    /\ cycle.queue # <<>>
    /\ \E env \in Environments :
          /\ Canonical(env, cycle.target # "")
          /\ LET r == process_reminders_body(Heap, handlers, delivery_stats,
                          Head(cycle.queue), cycle.target, env, now)
             IN /\ SetHeap(Collect(r.st, handlers))
                /\ delivery_stats' = r.stats
                /\ log' = log \o r.events
    /\ cycle' = [cycle EXCEPT !.queue = Tail(@)]
    /\ UNCHANGED <<now, handlers, last>>

DeliverSendReminders ==
    /\ cycle.variant = "send_reminders"
    /\ cycle.queue # <<>>
    /\ \E env \in Environments :
          /\ Canonical(env, FALSE)
          /\ LET r == send_reminders_body(Heap, delivery_stats,
                          Head(cycle.queue), env)
             IN /\ SetHeap(Collect(r.st, handlers))
                /\ delivery_stats' = r.stats
                /\ log' = log \o r.events
    /\ cycle' = [cycle EXCEPT !.queue = Tail(@)]
    /\ UNCHANGED <<now, handlers, last>>

\* the loop is over: the cycle returns its report
FinishCycle ==
    /\ cycle.variant # "none"
    /\ cycle.queue = <<>>
    /\ cycle' = [cycle EXCEPT !.variant = "none"]
    /\ UNCHANGED <<now, dicts, lists, active_sessions, handlers, last, log,
                   delivery_stats>>

NextCycle ==
    \/ StartCycle
    \/ DeliverProcessReminders
    \/ DeliverSendReminders
    \/ FinishCycle

SpecCycle == Init /\ [][NextCycle]_vars

(***************************************************************************)
(* Properties of the delivery loop                                         *)
(***************************************************************************)
Events(ev, g) == {i \in 1..Len(log) : log[i].ev = ev /\ log[i].github_username = g}

DirectSendSucceeded(g) == \E i \in Events("dm", g) : log[i].ok

MentionTokens == {"user_mention", "at_username_text"}

\* the recipients the loop has gone through and not skipped
Delivered_to ==
    {g \in GithubUsers : Events("channel", g) # {} \/ Events("dm", g) # {}
                            \/ Events("session", g) # {}}

SessionIffDirectSend ==
    \A g \in GithubUsers :
        /\ \A i \in Events("dm", g) :
              log[i].ok => /\ i + 1 \in Events("session", g)
                           /\ Session(DiscordId(g)).exists
        /\ \A i \in Events("session", g) :
              i > 1 /\ i - 1 \in Events("dm", g) /\ log[i - 1].ok

\* C3: every recipient the cycle delivers to gets exactly one channel-copy
\* send, of one to max_retries calls, placed after the recipient's direct send
\* when there was one, whether that send succeeded, failed or never happened
OneChannelCopyEach ==
    \A g \in Delivered_to :
        /\ Cardinality(Events("channel", g)) = 1
        /\ Cardinality(Events("dm", g)) <= 1
        /\ \A i \in Events("channel", g) :
              /\ log[i].calls \in 1..max_retries
              /\ \A j \in Events("dm", g) : j < i

OneChannelCopySeen ==
    /\ cycle.variant # "none"
    /\ cycle.queue = <<>>
    /\ \E g \in Delivered_to : DirectSendSucceeded(g)
    /\ \E g \in Delivered_to : Events("dm", g) = {}
    /\ \E g \in GithubUsers : Events("skip", g) = {} /\ g \in Delivered_to
                                 /\ \E i \in Events("channel", g) : ~log[i].ok

(***************************************************************************)
(* Session lifetime: the clock advances between operations, sessions are   *)
(* created for both recipients and both reply                              *)
(***************************************************************************)
\* the instants around a creation and around the timeout after it
Instants == {t \in 0..MaxNow : t <= 1 \/ t >= session_timeout_hours - 1}

Tick ==
    /\ \E t \in Instants : t > now /\ now' = t
    /\ last' = LastRec("tick", "", "", NoRun)
    /\ UNCHANGED <<dicts, lists, active_sessions, handlers, cycle, log,
                   delivery_stats>>

TwoItemBundles == {b \in Bundles : Len(b.issues) + Len(b.prs) = 2}

ExpiryCreate(u) == CreateUpdateSessionWith(u, TwoItemBundles)

ExpiryReply(u) == ReplyWith(u, {"fixed it", "1"}, Delivered)

NextExpiry ==
    \/ Tick
    \/ \E u \in Users : ExpiryCreate(u)
    \/ \E u \in Users : ExpiryReply(u)

SpecExpiry == Init /\ [][NextExpiry]_vars

\* C9: a reply is routed into its author's session exactly when the session
\* exists and was created at most 48 hours before; a reply later than that
\* removes the session and is not routed; a session created for another
\* recipient removes every session older than 48 hours and leaves the others;
\* a reply never changes the creation time, and the passing of time alone
\* changes no session
SessionLifetime ==
    [][\A u \in Users :
         LET s == Session(u)
             late == now - s.created_at > 48
         IN /\ (last'.kind = "reply" /\ last'.user = u)
                  => /\ last'.routed <=> (s.exists /\ ~late)
                     /\ (s.exists /\ late) => ~Session(u)'.exists
                     /\ Session(u)'.exists
                           => Session(u)'.created_at = s.created_at
            /\ (last'.kind = "create" /\ last'.user # u)
                  => IF s.exists /\ late
                     THEN ~Session(u)'.exists
                     ELSE Session(u)' = s
            /\ last'.kind = "tick" => Session(u)' = s]_vars

\* a reply routed into a session exactly 48 hours old
SessionAtLimitSeen ==
    /\ last.kind = "reply"
    /\ last.routed
    /\ Session(last.user).exists
    /\ now - Session(last.user).created_at = 48

(***************************************************************************)
(* The reply tasks as the event loop runs them: every direct message       *)
(* starts a task of on_dm_message at once, and a task runs from one await  *)
(* to the next while the others are suspended                              *)
(***************************************************************************)
SmallBundles == {b \in Bundles : Len(b.issues) + Len(b.prs) <= 2}

ConcInputs == {"fixed it", "Done"}

ConcCreate(u) == CreateUpdateSessionWith(u, SmallBundles)

\* a message arrives: its task runs up to its first await
Arrive(u) ==
    /\ \E k \in HandlerIds, content \in ConcInputs :
          /\ handlers[k].pc = "idle"
          /\ \A j \in HandlerIds : j < k => handlers[j].pc # "idle"
          /\ LET b == Begin(Heap, u, content, now)
                 hs == [handlers EXCEPT ![k] = b.h]
             IN /\ handlers' = hs
                /\ SetHeap(Collect(b.st, hs))
                /\ last' = LastRec("arrive", u, "",
                                   [NoRun EXCEPT !.routed = b.h.pc # "idle"])
    /\ UNCHANGED <<now, cycle, log, delivery_stats>>

\* the await a task is suspended at completes or raises, and the task runs
\* up to its next await or to its end
Step(k) ==
    /\ handlers[k].pc # "idle"
    /\ \E ok \in BOOLEAN, post_ok \in BOOLEAN :
          /\ (handlers[k].pc # "typing" \/ ~ok) => post_ok
          /\ LET r == Resume(Heap, handlers[k], ok, post_ok)
                 hs == [handlers EXCEPT ![k] = r.h]
                 fin == Collect(r.st, hs)
             IN /\ WithinBounds(fin)
                /\ handlers' = hs
                /\ SetHeap(fin)
                /\ last' = LastRec("step", handlers[k].user, "",
                                   [routed |-> TRUE, post |-> r.post,
                                    raised |-> r.h.pc = "apology",
                                    escaped |-> handlers[k].pc = "apology" /\ ~ok])
    /\ UNCHANGED <<now, cycle, log, delivery_stats>>

NextConc ==
    \/ \E u \in Talkers : ConcCreate(u)
    \/ \E u \in Talkers : Arrive(u)
    \/ \E k \in HandlerIds : Step(k)

SpecConc == Init /\ [][NextConc]_vars

\* the task has read its session and has a change to it still to make
BeforeLastWrite(h) ==
    h.pc \in {"typing", "send_result", "send_then_update", "send_then_end"}

\* C10: at no time are two reply tasks of one recipient both between reading
\* the recipient's session and making their last change to it
RepliesInArrivalOrder ==
    \A j \in HandlerIds, k \in HandlerIds :
        (j # k /\ BeforeLastWrite(handlers[j]) /\ BeforeLastWrite(handlers[k]))
           => handlers[j].user # handlers[k].user

(***************************************************************************)
(* Inbound direct messages with their reply reference: on_dm_message is    *)
(* handed the whole message, message.reference included                    *)
(***************************************************************************)
\* message.reference: absent, the latest message the bot sent to the author,
\* or an older message
References == {"none", "latest", "older"}

\* on_dm_message called with a message that carries a reference
Inbound(u) ==
    /\ \E content \in Inputs, o \in Delivered, reference \in References :
          LET r == on_dm_message(Heap, u, content, now, o[1], o[2], o[3])
              fin == Collect(r.st, handlers)
          IN /\ WithinBounds(fin)
             /\ SetHeap(fin)
             /\ last' = LastRec("reply", u, content, r)
                           @@ [reference |-> reference]
    /\ UNCHANGED <<now, handlers, cycle, log, delivery_stats>>

NextInbound ==
    \/ \E u \in Talkers : CreateUpdateSession(u)
    \/ \E u \in Talkers : Inbound(u)

SpecInbound == Init /\ [][NextInbound]_vars

\* C11: a message that is not a direct reply to the latest message the bot
\* sent to its author is not routed into the author's session: it posts no
\* comment and leaves the session as it was
RoutedOnlyDirectReply ==
    [][\A u \in Users :
          (last'.kind = "reply" /\ last'.user = u /\ last'.reference # "latest")
             => /\ ~last'.routed
                /\ ~last'.post.made
                /\ Session(u)' = Session(u)]_vars

(***************************************************************************)
(* retry_with_exponential_backoff as a function of what the wrapped call   *)
(* does at each invocation and of the budget it is given                   *)
(***************************************************************************)
Statuses == {0, 401, 403, 404, 429, 500, 502, 503}

CallOutcomes == {Ok, Raises} \cup {HttpError(status) : status \in Statuses}

Scripts == [1..max_retries -> CallOutcomes]

NoResult == RetryResult(FALSE, "", 0)

InitRetry ==
    /\ now = 0
    /\ dicts = [i \in Objs |-> DeadDict]
    /\ lists = [i \in Objs |-> DeadList]
    /\ active_sessions = [u \in Users |-> 0]
    /\ handlers = NoHandlers
    /\ \E outs \in Scripts, retries \in 1..max_retries :
          last = [kind |-> "script", outs |-> outs, retries |-> retries,
                  returned |-> NoResult]
    /\ cycle = IdleCycle
    /\ log = <<>>
    /\ delivery_stats = NoStats

Execute ==
    /\ last.kind = "script"
    /\ last' = [last EXCEPT
                  !.kind = "returned",
                  !.returned = retry_with_exponential_backoff(last.outs,
                                                              last.retries)]
    /\ UNCHANGED <<now, dicts, lists, active_sessions, handlers, cycle, log,
                   delivery_stats>>

NextRetry == Execute

SpecRetry == InitRetry /\ [][NextRetry]_vars

Failed(o) == o.kind # "ok"

AuthFailure(o) == o.kind = "requests" /\ o.status \in {401, 403}

\* the failures after which the code gives up at once
Terminal(o) == o.kind = "requests" /\ o.status \in {401, 403, 500}

\* C15: the executor returns after at most max_retries calls (the budget it
\* was given); at the first call that succeeds it returns (True, result, "");
\* when every permitted call fails with an error that is retried it has made
\* all the calls and returns (False, None, text of the last failure)
BoundedRetries ==
    last.kind = "returned" =>
        LET r == last.returned
            n == last.retries
        IN /\ r.calls \in 1..n
           /\ \A k \in 1..n :
                 (last.outs[k].kind = "ok" /\ \A j \in 1..(k - 1) :
                        Failed(last.outs[j]) /\ ~Terminal(last.outs[j]))
                    => /\ r.success /\ r.result = "result" /\ r.error = ""
                       /\ r.calls = k
           /\ (\A k \in 1..n : Failed(last.outs[k]) /\ ~Terminal(last.outs[k]))
                 => /\ ~r.success /\ r.result = "None"
                    /\ r.calls = n
                    /\ r.error = ErrorText(last.outs[n])

BoundedRetriesSeen ==
    /\ last.kind = "returned"
    /\ last.retries = max_retries
    /\ last.returned.calls = max_retries
    /\ ~last.returned.success
    /\ last.outs[1].status = 429
    /\ last.outs[max_retries] = Raises
    /\ last.returned.error = "unexpected error"

AuthText(status) ==
    IF status = 401 THEN "Missing or invalid Authorization header"
    ELSE "Invalid API key"

\* C16: when a call the executor makes fails with status 401 or 403, on any
\* attempt up to the last permitted one, that call is the last one made and
\* the error returned is the authentication error of that status, not the
\* text of the exception
AuthFailureIsTerminal ==
    last.kind = "returned" =>
        \A k \in 1..last.returned.calls :
            AuthFailure(last.outs[k])
               => /\ last.returned.calls = k
                  /\ ~last.returned.success
                  /\ last.returned.error = AuthText(last.outs[k].status)

\* C17: a call that fails with status 429, 500, 502 or 503 on an attempt
\* other than the last permitted one is followed by a backoff delay and
\* another call, and only a 401 or a 403 makes the executor return a failure
\* before it has made all the calls it is permitted
TransientIsRetried ==
    last.kind = "returned" =>
        /\ \A k \in 1..(last.retries - 1) :
              (/\ k <= last.returned.calls
               /\ last.outs[k].kind = "requests"
               /\ last.outs[k].status \in {429, 500, 502, 503})
                 => /\ last.returned.calls > k
                    /\ Len(last.returned.delays) >= k
        /\ (~last.returned.success /\ last.returned.calls < last.retries)
              => AuthFailure(last.outs[last.returned.calls])

(***************************************************************************)
(* Who is reminded of an item and why: is_stale, determine_issue_reminders *)
(* and determine_pr_reminders.  updatedAt is a day number, BadDate a text  *)
(* that does not parse as a date; a login of "" is a node without login    *)
(* (no author, a team as requested reviewer).                              *)
(***************************************************************************)
STALE_ISSUE_DAYS == 7
STALE_PR_DAYS == 5

\* datetime.now(timezone.utc), as a day number
Today == 20

BadDate == -1

is_stale(updated_at, days_threshold) ==
    IF updated_at = BadDate
    THEN TRUE
    ELSE updated_at < Today - days_threshold

Reminded(username, reason) == [username |-> username, reason |-> reason]

\* the entries of a node list that carry a login, in order
RECURSIVE WithLogin(_)
WithLogin(nodes) ==
    IF nodes = <<>> THEN <<>>
    ELSE (IF Head(nodes) # "" THEN <<Head(nodes)>> ELSE <<>>)
            \o WithLogin(Tail(nodes))

\* the creator reminded next to the assignees
determine_issue_reminders_and_creator(issue) ==
    IF ~is_stale(issue.updatedAt, STALE_ISSUE_DAYS)
    THEN <<>>
    ELSE [i \in 1..Len(WithLogin(issue.assignees)) |->
             Reminded(WithLogin(issue.assignees)[i], "assigned")]
           \o (IF issue.author # ""
               THEN <<Reminded(issue.author, "created")>> ELSE <<>>)

determine_issue_reminders(issue) ==
    IF ~is_stale(issue.updatedAt, STALE_ISSUE_DAYS)
    THEN <<>>
    ELSE IF issue.assignees # <<>>
    THEN [i \in 1..Len(WithLogin(issue.assignees)) |->
             Reminded(WithLogin(issue.assignees)[i], "assigned")]
    ELSE IF issue.author # ""
    THEN <<Reminded(issue.author, "created")>>
    ELSE <<>>

\* the review state looked at before the draft flag
determine_pr_reminders_review_first(pr) ==
    LET reviewer_logins == WithLogin(pr.reviewRequests)
        creator(reason) == IF pr.author # ""
                           THEN <<Reminded(pr.author, reason)>> ELSE <<>>
    IN IF ~is_stale(pr.updatedAt, STALE_PR_DAYS)
       THEN <<>>
       ELSE IF pr.reviewDecision = "APPROVED"
       THEN creator("approved_creator")
       ELSE IF pr.reviewDecision = "CHANGES_REQUESTED"
       THEN creator("changes_requested_creator")
       ELSE IF pr.isDraft
       THEN creator("draft_creator")
       ELSE IF reviewer_logins # <<>>
       THEN [i \in 1..Len(reviewer_logins) |->
                Reminded(reviewer_logins[i], "reviewer")]
       ELSE creator("awaiting_review_creator")

determine_pr_reminders(pr) ==
    LET reviewer_logins == WithLogin(pr.reviewRequests)
        creator(reason) == IF pr.author # ""
                           THEN <<Reminded(pr.author, reason)>> ELSE <<>>
    IN IF ~is_stale(pr.updatedAt, STALE_PR_DAYS)
       THEN <<>>
       ELSE IF pr.isDraft
       THEN creator("draft_creator")
       ELSE IF pr.reviewDecision = "APPROVED"
       THEN creator("approved_creator")
       ELSE IF pr.reviewDecision = "CHANGES_REQUESTED"
       THEN creator("changes_requested_creator")
       ELSE IF pr.reviewDecision = "REVIEW_REQUIRED" \/ pr.reviewDecision = ""
       THEN IF reviewer_logins # <<>>
            THEN [i \in 1..Len(reviewer_logins) |->
                     Reminded(reviewer_logins[i], "reviewer")]
            ELSE creator("awaiting_review_creator")
       ELSE <<>>
LoginNodes == GithubUsers \cup {""}

NodeLists == SeqsUpTo(LoginNodes, MaxNodes)

\* around the two thresholds, and a text that is no date
UpdatedAts ==
    {BadDate} \cup {Today - age : age \in (STALE_PR_DAYS - 1)..(STALE_ISSUE_DAYS + 1)}

IssuesDrawn ==
    [updatedAt : UpdatedAts, author : LoginNodes, assignees : NodeLists]

\* the tracker never asks the author of a pull request for a review
PullRequestsDrawn ==
    {pr \in [updatedAt : UpdatedAts, author : LoginNodes, isDraft : BOOLEAN,
             reviewDecision : {"", "REVIEW_REQUIRED", "APPROVED",
                               "CHANGES_REQUESTED"},
             reviewRequests : NodeLists] :
        pr.author = "" \/ pr.author \notin Range(pr.reviewRequests)}

InitClassify ==
    /\ now = 0
    /\ dicts = [i \in Objs |-> DeadDict]
    /\ lists = [i \in Objs |-> DeadList]
    /\ active_sessions = [u \in Users |-> 0]
    /\ handlers = NoHandlers
    /\ \/ \E issue \in IssuesDrawn :
             last = [kind |-> "issue", item |-> issue, reminded |-> <<>>]
       \/ \E pr \in PullRequestsDrawn :
             last = [kind |-> "pr", item |-> pr, reminded |-> <<>>]
    /\ cycle = IdleCycle
    /\ log = <<>>
    /\ delivery_stats = NoStats

ClassifyIssue ==
    /\ last.kind = "issue"
    /\ last' = [last EXCEPT !.kind = "issue_classified",
                            !.reminded = determine_issue_reminders(last.item)]
    /\ UNCHANGED <<now, dicts, lists, active_sessions, handlers, cycle, log,
                   delivery_stats>>

ClassifyPullRequest ==
    /\ last.kind = "pr"
    /\ last' = [last EXCEPT !.kind = "pr_classified",
                            !.reminded = determine_pr_reminders(last.item)]
    /\ UNCHANGED <<now, dicts, lists, active_sessions, handlers, cycle, log,
                   delivery_stats>>

NextClassify ==
    \/ ClassifyIssue
    \/ ClassifyPullRequest

SpecClassify == InitClassify /\ [][NextClassify]_vars

\* updated longer ago than the threshold (a text that is no date is neither
\* older nor newer)
OlderThan(item, days) == item.updatedAt # BadDate /\ Today - item.updatedAt > days

NotOlderThan(item, days) == item.updatedAt # BadDate /\ Today - item.updatedAt <= days

Usernames(reminded) == {reminded[k].username : k \in 1..Len(reminded)}

Reasons(reminded) == {reminded[k].reason : k \in 1..Len(reminded)}

\* C18: an issue older than the issue threshold reminds exactly its assignees,
\* each once with reason 'assigned' and nobody as creator, when it has
\* assignees; it reminds its author and nobody else, with the creator reason
\* of an unassigned issue, when it has none; an issue that is not older than
\* the threshold reminds nobody
IssueReminders ==
    last.kind = "issue_classified" =>
        LET issue == last.item
            r == last.reminded
            assignees == WithLogin(issue.assignees)
        IN /\ (OlderThan(issue, STALE_ISSUE_DAYS) /\ issue.assignees # <<>>)
                 => /\ r = [k \in 1..Len(assignees) |->
                               Reminded(assignees[k], "assigned")]
                    /\ "created" \notin Reasons(r)
           /\ (OlderThan(issue, STALE_ISSUE_DAYS) /\ issue.assignees = <<>>
                 /\ issue.author # "")
                 => r = <<Reminded(issue.author, "created")>>
           /\ NotOlderThan(issue, STALE_ISSUE_DAYS) => r = <<>>

IssueRemindersSeen ==
    /\ last.kind = "issue_classified"
    /\ Today - last.item.updatedAt = STALE_ISSUE_DAYS + 1
    /\ last.item.author = "gh1"
    /\ last.item.assignees = <<"gh1", "gh2">>
    /\ Len(last.reminded) = 2

\* the priority ladder of a stale pull request; review_requested says
\* whether the pull request counts as having a requested reviewer
Ladder(pr, r, review_requested) ==
    LET creator(reason) == IF pr.author # ""
                           THEN <<Reminded(pr.author, reason)>> ELSE <<>>
    IN /\ pr.isDraft => r = creator("draft_creator")
       /\ (~pr.isDraft /\ pr.reviewDecision = "APPROVED")
             => r = creator("approved_creator")
       /\ (~pr.isDraft /\ pr.reviewDecision = "CHANGES_REQUESTED")
             => r = creator("changes_requested_creator")
       /\ (~pr.isDraft /\ pr.reviewDecision \in {"", "REVIEW_REQUIRED"})
             => IF review_requested
                THEN /\ Usernames(r) = Range(WithLogin(pr.reviewRequests))
                     /\ Reasons(r) = {"reviewer"}
                     /\ pr.author \notin Usernames(r)
                ELSE r = creator("awaiting_review_creator")
       /\ Cardinality(Reasons(r)) <= 1

\* C19 as stated: the reviewers are reminded whenever the pull request has at
\* least one requested reviewer of any kind
PriorityLadderAnyReviewer ==
    (last.kind = "pr_classified" /\ OlderThan(last.item, STALE_PR_DAYS))
       => Ladder(last.item, last.reminded, last.item.reviewRequests # <<>>)

\* C19: for a stale pull request exactly one branch fires, by priority:
\* draft, approved, changes requested, awaiting review; awaiting review
\* reminds every requested reviewer that is a user (and not the author) when
\* there is at least one such reviewer, and the author otherwise; nobody gets
\* two reasons
PriorityLadder ==
    (last.kind = "pr_classified" /\ OlderThan(last.item, STALE_PR_DAYS))
       => Ladder(last.item, last.reminded,
                 WithLogin(last.item.reviewRequests) # <<>>)

PriorityLadderSeen ==
    /\ last.kind = "pr_classified"
    /\ OlderThan(last.item, STALE_PR_DAYS)
    /\ ~last.item.isDraft
    /\ last.item.reviewDecision = "REVIEW_REQUIRED"
    /\ last.item.reviewRequests = <<"", "gh2">>
    /\ last.item.author = "gh1"
    /\ last.reminded = <<Reminded("gh2", "reviewer")>>

(***************************************************************************)
(* The walk of a reminder cycle over the tracker: for each kind (issues,   *)
(* then pull requests) and each repository, page after page, with the      *)
(* reminders of the stale items gathered per login; then the delivery.     *)
(***************************************************************************)
REMINDER_REPOS == <<"Mantis", "MantisAPI">>

Kinds == <<"issues", "prs">>

Threshold(kind) == IF kind = "issues" THEN STALE_ISSUE_DAYS ELSE STALE_PR_DAYS

\* make_github_api_request of ReminderProcessor: the result of the call, or
\* RuntimeError raised when the retries gave nothing
make_github_api_request(outs) ==
    LET r == retry_with_exponential_backoff(outs, max_retries)
    IN [raised |-> ~r.success, returned |-> r.success, calls |-> r.calls]

\* make_github_api_request of the send-reminders command: the raise sits
\* behind the return, so a failure returns None
make_github_api_request_command(outs) ==
    LET r == retry_with_exponential_backoff(outs, max_retries)
    IN [raised |-> FALSE, returned |-> r.success, calls |-> r.calls]

\* what the tracker does with one page request: the calls that fail, and
\* the body of the answer when one gets through
FetchScripts ==
    {[k \in 1..max_retries |-> Ok],
     [k \in 1..max_retries |-> IF k = 1 THEN HttpError(502) ELSE Ok],
     [k \in 1..max_retries |-> HttpError(502)],
     [k \in 1..max_retries |-> HttpError(401)]}

\* the ages of the items of a walk: stale and newer than twice the
\* threshold, exactly twice the threshold old, older
WalkAges(kind) == {Threshold(kind) + 1, 2 * Threshold(kind), 2 * Threshold(kind) + 1}

WalkLogins == {"gh1"}

\* pages of one author's items, newest first, none newer than the oldest
\* item of the pages before (floor is the age of that item)
PageNodes(kind, floor) ==
    {nodes \in SeqsUpTo(WalkAges(kind) \X WalkLogins, MaxPageItems) :
        /\ \A i \in 1..Len(nodes) : nodes[i][1] >= floor
        /\ \A i \in 1..Len(nodes), j \in 1..Len(nodes) :
              /\ i < j => nodes[i][1] <= nodes[j][1]
              /\ nodes[i][2] = nodes[j][2]}

Bodies(kind, floor, cursor) ==
    {[tag |-> t, nodes |-> <<>>, hasNextPage |-> FALSE] :
        t \in {"errors", "no_repository"}}
      \cup {[tag |-> "page", nodes |-> n, hasNextPage |-> h] :
              n \in PageNodes(kind, floor),
              h \in {x \in BOOLEAN : x => cursor + 1 < MaxPages}}

ItemNumber(repo, cursor, i) == 100 * repo + 10 * (cursor + 1) + i

\* the node of the answer as the classifiers read it
IssueNode(node) ==
    [updatedAt |-> Today - node[1], author |-> node[2], assignees |-> <<>>]

PullRequestNode(node) ==
    [updatedAt |-> Today - node[1], author |-> node[2], isDraft |-> FALSE,
     reviewDecision |-> "REVIEW_REQUIRED", reviewRequests |-> <<>>]

users_to_remind(kind, node) ==
    IF kind = "issues"
    THEN determine_issue_reminders(IssueNode(node))
    ELSE determine_pr_reminders(PullRequestNode(node))

\* all_user_reminders[username][kind].append(item), the entry made first
\* when the login has none
AddReminder(reminders, kind, username, item) ==
    LET known == \E i \in 1..Len(reminders) :
                    reminders[i].github_username = username
        rs == IF known THEN reminders
              ELSE Append(reminders, [github_username |-> username,
                                      issues |-> <<>>, prs |-> <<>>])
    IN [i \in 1..Len(rs) |->
          IF rs[i].github_username # username THEN rs[i]
          ELSE IF kind = "issues"
          THEN [rs[i] EXCEPT !.issues = Append(@, item)]
          ELSE [rs[i] EXCEPT !.prs = Append(@, item)]]

RECURSIVE AddReminded(_, _, _, _)
AddReminded(reminders, kind, reminded, item) ==
    IF reminded = <<>> THEN reminders
    ELSE AddReminded(
             AddReminder(reminders, kind, Head(reminded).username,
                         [item EXCEPT !.reminder_reason = Head(reminded).reason]),
             kind, Tail(reminded), item)

\* "for issue in page_issues": the nodes from the i-th on
RECURSIVE AddPage(_, _, _, _, _, _)
AddPage(reminders, kind, repo, cursor, nodes, i) ==
    IF i > Len(nodes) THEN reminders
    ELSE AddPage(
             AddReminded(reminders, kind, users_to_remind(kind, nodes[i]),
                         [number |-> ItemNumber(repo, cursor, i),
                          updatedAt |-> Today - nodes[i][1],
                          reminder_reason |-> ""]),
             kind, repo, cursor, nodes, i + 1)
Combo(c) == <<Kinds[c.kind], REMINDER_REPOS[c.repo]>>

Combos == {<<Kinds[k], REMINDER_REPOS[r]>> :
              k \in 1..Len(Kinds), r \in 1..Len(REMINDER_REPOS)}

\* the bundles as the delivery loop and create_update_session read them
Numbered(reminders) ==
    [i \in 1..Len(reminders) |->
        [github_username |-> reminders[i].github_username,
         issues |-> [j \in 1..Len(reminders[i].issues) |->
                        reminders[i].issues[j].number],
         prs |-> [j \in 1..Len(reminders[i].prs) |->
                     reminders[i].prs[j].number]]]

\* the while loop of a repository is left: the next repository, the pull
\* requests after the issues, the delivery after the pull requests
Advance(c) ==
    IF c.repo < Len(REMINDER_REPOS)
    THEN [c EXCEPT !.repo = @ + 1, !.cursor = 0, !.floor = 0]
    ELSE IF c.kind < Len(Kinds)
    THEN [c EXCEPT !.kind = @ + 1, !.repo = 1, !.cursor = 0, !.floor = 0]
    ELSE [c EXCEPT !.variant = c.caller,
                   !.queue = Numbered(c.reminders),
                   !.all = Logins(c.reminders)]

\* the early exit decided on the newest item of the page
AfterPageFirstItem(c, body) ==
    LET kind == Kinds[c.kind]
        c2 == [c EXCEPT !.reminders =
                  AddPage(@, kind, c.repo, c.cursor, body.nodes, 1)]
        stop == /\ body.nodes # <<>>
                /\ ~is_stale(Today - body.nodes[1][1], Threshold(kind) * 2)
    IN IF stop \/ ~body.hasNextPage
       THEN Advance(c2)
       ELSE [c2 EXCEPT !.cursor = @ + 1,
                       !.floor = IF body.nodes = <<>> THEN @
                                 ELSE body.nodes[Len(body.nodes)][1]]

\* a page came back: its items are classified and gathered, then the loop
\* goes on to the next page, or is left
AfterPage(c, body) ==
    LET kind == Kinds[c.kind]
        c2 == [c EXCEPT !.reminders =
                  AddPage(@, kind, c.repo, c.cursor, body.nodes, 1)]
        stop == /\ body.nodes # <<>>
                /\ ~is_stale(Today - body.nodes[Len(body.nodes)][1],
                             Threshold(kind) * 2)
    IN IF stop \/ ~body.hasNextPage
       THEN Advance(c2)
       ELSE [c2 EXCEPT !.cursor = @ + 1,
                       !.floor = IF body.nodes = <<>> THEN @
                                 ELSE body.nodes[Len(body.nodes)][1]]

Outcome(req, body) == IF ~req.returned THEN "exhausted" ELSE body.tag

Fetched(c, req, body) ==
    [kind |-> "fetch", combo |-> Combo(c),
     cursor |-> c.cursor, outcome |-> Outcome(req, body),
     nodes |-> IF req.returned THEN body.nodes ELSE <<>>,
     hasNextPage |-> req.returned /\ body.hasNextPage]

\* one turn of "while has_next_page" in process_reminders
process_reminders_page(c, outs, body) ==
    LET req == make_github_api_request(outs)
    IN IF req.raised \/ body.tag \in {"errors", "no_repository"}
       THEN c
       ELSE AfterPage(c, body)

\* one turn of "while has_next_page" in send_reminders: data is None after
\* a failed request and data.get raises, GraphQL errors return
send_reminders_page(c, outs, body) ==
    LET req == make_github_api_request_command(outs)
    IN IF ~req.returned \/ body.tag = "errors"
       THEN [c EXCEPT !.variant = "aborted"]
       ELSE IF body.tag = "no_repository"
       THEN c
       ELSE AfterPage(c, body)

RECURSIVE Gathered(_)
Gathered(reminders) ==
    IF reminders = <<>> THEN 0
    ELSE Len(Head(reminders).issues) + Len(Head(reminders).prs)
           + Gathered(Tail(reminders))

StartWalk ==
    /\ cycle = IdleCycle
    /\ \E caller \in {"process_reminders", "send_reminders"} :
          cycle' = [variant |-> "walk", caller |-> caller, queue |-> <<>>,
                    all |-> <<>>, target |-> "", kind |-> 1, repo |-> 1,
                    cursor |-> 0, floor |-> 0, reminders |-> <<>>]
    /\ last' = [kind |-> "start"]
    /\ log' = <<>>
    /\ delivery_stats' = NoStats
    /\ UNCHANGED <<now, dicts, lists, active_sessions, handlers>>

FetchPage(caller) ==
    /\ cycle.variant = "walk"
    /\ cycle.caller = caller
    /\ \E outs \in FetchScripts :
       \E body \in Bodies(Kinds[cycle.kind], cycle.floor, cycle.cursor) :
          /\ outs[max_retries] # Ok => body.tag = "errors"
          /\ Gathered(cycle.reminders) + Len(body.nodes) <= MaxWalkItems
          /\ cycle' = IF caller = "process_reminders"
                      THEN process_reminders_page(cycle, outs, body)
                      ELSE send_reminders_page(cycle, outs, body)
          /\ last' = Fetched(cycle,
                             IF caller = "process_reminders"
                             THEN make_github_api_request(outs)
                             ELSE make_github_api_request_command(outs),
                             body)
    /\ UNCHANGED <<now, dicts, lists, active_sessions, handlers, log,
                   delivery_stats>>

\* the direct send goes through or the login has no mapping; the channel
\* send goes through
WalkEnvironments ==
    {env \in Environments :
        /\ Canonical(env, FALSE)
        /\ env.channel = [k \in 1..max_retries |-> Ok]
        /\ env.dm = [k \in 1..max_retries |-> Ok]
        /\ env.discord_username # "" => env.found}

DeliverWalked ==
    /\ cycle.variant \in {"process_reminders", "send_reminders"}
    /\ cycle.queue # <<>>
    /\ \E env \in WalkEnvironments :
          LET r == IF cycle.variant = "process_reminders"
                   THEN process_reminders_body(Heap, handlers, delivery_stats,
                            Head(cycle.queue), cycle.target, env, now)
                   ELSE send_reminders_body(Heap, delivery_stats,
                            Head(cycle.queue), env)
          IN /\ SetHeap(Collect(r.st, handlers))
             /\ delivery_stats' = r.stats
             /\ log' = log \o r.events
    /\ cycle' = [cycle EXCEPT !.queue = Tail(@)]
    /\ last' = [kind |-> "deliver"]
    /\ UNCHANGED <<now, handlers>>

ReturnReport ==
    /\ cycle.variant \in {"process_reminders", "send_reminders"}
    /\ cycle.queue = <<>>
    /\ cycle' = [cycle EXCEPT !.variant = "none"]
    /\ last' = [kind |-> "report"]
    /\ UNCHANGED <<now, dicts, lists, active_sessions, handlers, log,
                   delivery_stats>>

NextWalk ==
    \/ StartWalk
    \/ FetchPage("process_reminders")
    \/ FetchPage("send_reminders")
    \/ DeliverWalked
    \/ ReturnReport

SpecWalk == Init /\ [][NextWalk]_vars
FetchFailures == {"exhausted", "errors", "no_repository"}

\* C12: once a page fetch of a (kind, repository) combination has exhausted
\* its retries, or came back with GraphQL errors or without the repository,
\* no page of that combination is requested again in the cycle
WalkEndsAtFailure ==
    [][(/\ last.kind = "fetch"
        /\ last.outcome \in FetchFailures
        /\ last'.kind = "fetch")
          => last'.combo # last.combo]_vars
\* the combinations the walk has requested a page of, from its position
Reached(c) ==
    {combo \in Combos :
        \E k \in 1..c.kind, r \in 1..Len(REMINDER_REPOS) :
            /\ combo = <<Kinds[k], REMINDER_REPOS[r]>>
            /\ k < c.kind \/ r <= c.repo}

WalkOver == cycle.variant = "aborted" \/ last.kind = "report"

\* C13: when a cycle is over, whatever page fetches failed in it, every
\* (kind, repository) combination has been walked and every recipient of a
\* stale item gathered in it has had its delivery attempt
FailureIsolated ==
    WalkOver =>
        /\ Combos \subseteq Reached(cycle)
        /\ \A i \in 1..Len(cycle.reminders) :
              cycle.reminders[i].github_username \in Delivered_to
PageFetched == last'.kind = "fetch" /\ last'.outcome = "page"

OldestAge(nodes) == nodes[Len(nodes)][1]

\* the walk of the combination is left / goes on to the page after this one
LeavesCombo ==
    cycle'.variant # "walk" \/ Combo(cycle') # Combo(cycle)

NextPageOfCombo ==
    /\ cycle'.variant = "walk"
    /\ Combo(cycle') = Combo(cycle)
    /\ cycle'.cursor = cycle.cursor + 1

\* C14 as stated: after page k of a combination, when the oldest (last) item
\* of the page was updated more recently than 2 x the kind's threshold the
\* combination is left, even when the page indicated a next page; otherwise
\* the walk goes on to page k + 1 while a next page is indicated
EarlyExitNewerThan ==
    [][PageFetched =>
         LET nodes == last'.nodes
             recent == /\ nodes # <<>>
                       /\ OldestAge(nodes) < 2 * Threshold(last'.combo[1])
         IN IF recent \/ ~last'.hasNextPage
            THEN LeavesCombo ELSE NextPageOfCombo]_vars

\* C14: after page k of a combination, when the oldest (last) item of the
\* page was updated 2 x the kind's threshold ago or more recently, or the
\* page indicated no next page, the combination is left and no page beyond k
\* is requested; otherwise the next request of the walk is page k + 1 of the
\* combination
EarlyExit ==
    [][PageFetched =>
         LET nodes == last'.nodes
             recent == /\ nodes # <<>>
                       /\ OldestAge(nodes) <= 2 * Threshold(last'.combo[1])
         IN IF recent \/ ~last'.hasNextPage
            THEN LeavesCombo ELSE NextPageOfCombo]_vars

EarlyExitSeen ==
    /\ last.kind = "fetch"
    /\ last.outcome = "page"
    /\ last.hasNextPage
    /\ Len(last.nodes) = 2
    /\ last.nodes[1][1] < OldestAge(last.nodes)
    /\ OldestAge(last.nodes) = 2 * Threshold(last.combo[1])
    /\ cycle.variant = "walk"
    /\ Combo(cycle) # last.combo
    /\ cycle.cursor = 0
NewestFirst(items) ==
    \A a \in 1..Len(items), b \in 1..Len(items) :
        a < b => items[a].updatedAt >= items[b].updatedAt

\* C20: in every bundle a cycle delivers, the issues of the recipient and the
\* pull requests of the recipient are each in the order of updatedAt
\* descending, whichever repositories and pages the items came from
BundlesNewestFirst ==
    cycle.variant \in {"process_reminders", "send_reminders"} =>
        \A i \in 1..Len(cycle.reminders) :
            cycle.reminders[i].github_username \in Delivered_to
               => /\ NewestFirst(cycle.reminders[i].issues)
                  /\ NewestFirst(cycle.reminders[i].prs)
(***************************************************************************)
(* Delivery failures and the delivery stats                                *)
(***************************************************************************)
\* the recipients of the cycle the loop has been through
Processed ==
    {g \in Range(cycle.all) : g \notin Range(Logins(cycle.queue))}

Sends(ev, ok) == {i \in 1..Len(log) : log[i].ev = ev /\ log[i].ok = ok}

\* C21: a direct send or a channel send that failed (all its retries made)
\* is counted in the delivery stats and does not end the loop: every recipient
\* the loop has been through, whatever failed before, was skipped or has its
\* own channel attempt after its own direct attempt, and the counters of the
\* report are the numbers of sends that failed and that went through
FailedSendsRecorded ==
    /\ delivery_stats.dm_failed = Cardinality(Sends("dm", FALSE))
    /\ delivery_stats.channel_failed = Cardinality(Sends("channel", FALSE))
    /\ delivery_stats.dm_success = Cardinality(Sends("dm", TRUE))
    /\ delivery_stats.channel_sent = Cardinality(Sends("channel", TRUE))
    /\ \A i \in Sends("dm", FALSE) \cup Sends("channel", FALSE) :
          log[i].calls = max_retries
    /\ \A g \in Processed :
          \/ Events("skip", g) # {}
          \/ /\ Cardinality(Events("channel", g)) = 1
             /\ \A i \in Events("dm", g), j \in Events("channel", g) : i < j
    /\ Len(cycle.queue) + Cardinality(Processed) = Len(cycle.all)

FailedSendsRecordedSeen ==
    /\ cycle.variant = "none"
    /\ Len(cycle.all) = 2
    /\ Processed = Range(cycle.all)
    /\ \E i \in Events("dm", cycle.all[1]) : ~log[i].ok
    /\ \E i \in Events("channel", cycle.all[1]) : ~log[i].ok
    /\ \E i \in Events("dm", cycle.all[2]) : log[i].ok
    /\ \E i \in Events("channel", cycle.all[2]) : log[i].ok
    /\ delivery_stats.dm_failed = 1
    /\ delivery_stats.channel_failed = 1
\* C27: every recipient the cycle attempts a channel copy for is counted in
\* exactly one of dm_success, dm_failed and no_mapping, so the three add up
\* to the channel copies sent and failed
StatsAccountForEveryRecipient ==
    /\ delivery_stats.dm_success + delivery_stats.dm_failed
          + delivery_stats.no_mapping
         = delivery_stats.channel_sent + delivery_stats.channel_failed
    /\ delivery_stats.channel_sent + delivery_stats.channel_failed
         = Cardinality({i \in 1..Len(log) : log[i].ev = "channel"})
(***************************************************************************)
(* ReminderScheduler.run_weekly_reminder_job and its cumulative job_stats  *)
(***************************************************************************)
MaxRuns == 2

NoJobStats ==
    [total_runs |-> 0, total_users_reminded |-> 0, dm_success_count |-> 0,
     dm_failed_count |-> 0, channel_messages_sent |-> 0]

\* the results dictionary the job starts with; "delivery_stats" is not a key
NoResults ==
    [users_processed |-> 0, dm_success |-> 0, dm_failed |-> 0,
     channel_sent |-> 0, channel_failed |-> 0, no_mapping |-> 0,
     delivery_stats |-> NoStats, has_delivery_stats |-> FALSE]

\* what process_reminders returns after the loop
reminder_results(all, stats) ==
    [users_processed |-> Len(all), delivery_stats |-> stats]

\* results.update(reminder_results): the keys of the report replace or join
\* the keys of results, one level deep
results_update(results, report) ==
    [results EXCEPT !.users_processed = report.users_processed,
                    !.delivery_stats = report.delivery_stats,
                    !.has_delivery_stats = TRUE]

update_job_stats(job_stats, results) ==
    [total_runs |-> job_stats.total_runs + 1,
     total_users_reminded |->
         job_stats.total_users_reminded + results.users_processed,
     dm_success_count |-> job_stats.dm_success_count + results.dm_success,
     dm_failed_count |-> job_stats.dm_failed_count + results.dm_failed,
     channel_messages_sent |->
         job_stats.channel_messages_sent + results.channel_sent]

InitJob ==
    /\ now = 0
    /\ dicts = [i \in Objs |-> DeadDict]
    /\ lists = [i \in Objs |-> DeadList]
    /\ active_sessions = [u \in Users |-> 0]
    /\ handlers = NoHandlers
    /\ last = [kind |-> "job", job_stats |-> NoJobStats, results |-> NoResults]
    /\ cycle = IdleCycle
    /\ log = <<>>
    /\ delivery_stats = NoStats

\* run_weekly_reminder_job calls processor.process_reminders()
StartJob ==
    /\ cycle.variant = "none"
    /\ last.job_stats.total_runs < MaxRuns
    /\ \E q \in Reminders :
          cycle' = [variant |-> "process_reminders", queue |-> q,
                    all |-> Logins(q), target |-> ""]
    /\ log' = <<>>
    /\ delivery_stats' = NoStats
    /\ UNCHANGED <<now, dicts, lists, active_sessions, handlers, last>>

\* process_reminders returns its report and the job updates job_stats
FinishJob ==
    /\ cycle.variant = "process_reminders"
    /\ cycle.queue = <<>>
    /\ cycle' = [cycle EXCEPT !.variant = "none"]
    /\ LET results == results_update(NoResults,
                          reminder_results(cycle.all, delivery_stats))
       IN last' = [kind |-> "job",
                   job_stats |-> update_job_stats(last.job_stats, results),
                   results |-> results]
    /\ UNCHANGED <<now, dicts, lists, active_sessions, handlers, log,
                   delivery_stats>>

NextJob ==
    \/ StartJob
    \/ DeliverProcessReminders
    \/ FinishJob

SpecJob == InitJob /\ [][NextJob]_vars

\* C30: when a run of the job ends with a completed cycle, job_stats has
\* grown by the results of that cycle: the direct sends that went through,
\* the direct sends that failed, the channel copies sent, users_processed,
\* and one run
JobStatsGrow ==
    [][(cycle.variant = "process_reminders" /\ cycle'.variant = "none") =>
          /\ last'.job_stats.total_runs = last.job_stats.total_runs + 1
          /\ last'.job_stats.total_users_reminded
               = last.job_stats.total_users_reminded + Len(cycle.all)
          /\ last'.job_stats.dm_success_count
               = last.job_stats.dm_success_count
                   + Cardinality(Sends("dm", TRUE))
          /\ last'.job_stats.dm_failed_count
               = last.job_stats.dm_failed_count
                   + Cardinality(Sends("dm", FALSE))
          /\ last'.job_stats.channel_messages_sent
               = last.job_stats.channel_messages_sent
                   + Cardinality(Sends("channel", TRUE))]_vars
(***************************************************************************)
(* The stages of the conversation: choices, re-entry after a failed post,  *)
(* malformed replies                                                       *)
(***************************************************************************)
\* the session with its stage left out
Kept(s) == [s EXCEPT !.stage = ""]

\* C22: (the task ending without an uncaught error) in
\* awaiting_continue_choice a 'yes' word moves a session with unresolved
\* items to awaiting_item_selection, everything else in it kept, and a 'no'
\* word removes the session; in awaiting_next_update_or_done a 'done' word
\* removes the session; none of these replies posts a comment
ChoiceReplies ==
    [][\A u \in Users :
          (Handled(last') /\ last'.user = u) =>
             LET s == Session(u)
                 word == Lower(Strip(last'.content))
             IN /\ (/\ s.stage = "awaiting_continue_choice"
                    /\ word \in ContinueYes
                    /\ Unresolved(s) # <<>>)
                      => /\ ~last'.post.made
                         /\ Session(u)'.exists
                         /\ Session(u)'.stage = "awaiting_item_selection"
                         /\ Kept(Session(u)') = Kept(s)
                /\ (s.stage = "awaiting_continue_choice" /\ word \in ContinueNo)
                      => ~last'.post.made /\ ~Session(u)'.exists
                /\ (s.stage = "awaiting_next_update_or_done" /\ word \in DoneWords)
                      => ~last'.post.made /\ ~Session(u)'.exists]_vars

\* a 'done' reply has ended the session and posted nothing
ChoiceRepliesSeen ==
    /\ Handled(last)
    /\ last.content = "Done"
    /\ ~last.post.made
    /\ ~Session(last.user).exists
\* a reply that is text: not blank, not a number, not a word of a choice
FreeText(content) ==
    /\ Strip(content) # ""
    /\ ~IsInt(Strip(content))
    /\ Lower(Strip(content)) \notin DoneWords \cup ContinueYes \cup ContinueNo

\* C23: after a reply whose comment post failed, from whichever stage, the
\* recipient's next reply, when it is free text, is taken as update content
\* and a post of that text is attempted (the tasks ending without an uncaught
\* error)
FailedPostReentersContent ==
    [][\A u \in Users :
          (/\ PostFailed(last)
           /\ last.user = u
           /\ Handled(last')
           /\ last'.user = u
           /\ FreeText(last'.content))
             => /\ last'.post.made
                /\ last'.post.body = Strip(last'.content)]_vars
\* a reply that is invalid for the stage of the session
Malformed(s, content) ==
    LET text == Strip(content)
    IN CASE s.stage \in {"awaiting_initial_response", "awaiting_update_content",
                         "awaiting_next_update_or_done"} -> text = ""
         [] s.stage \in {"awaiting_item_selection",
                         "awaiting_item_selection_for_update"} ->
               \/ ~IsInt(text)
               \/ IntOf(text) \notin 1..Len(s.update_items)
         [] s.stage = "awaiting_continue_choice" ->
               Lower(text) \notin ContinueYes \cup ContinueNo
         [] OTHER -> FALSE

\* C24: a reply that is invalid for the stage of the session (the task
\* ending without an uncaught error) posts no comment and leaves the session
\* in the store as it was: stage, items, resolved items, pending content and
\* selected index
MalformedReplyKeepsSession ==
    [][\A u \in Users :
          (/\ Handled(last')
           /\ last'.user = u
           /\ Malformed(Session(u), last'.content))
             => /\ ~last'.post.made
                /\ Session(u)'.exists
                /\ Session(u)' = Session(u)]_vars

MalformedReplySeen ==
    /\ Handled(last)
    /\ last.content = "0"
    /\ ~last.post.made
    /\ Session(last.user).stage = "awaiting_item_selection_for_update"
    /\ Session(last.user).pending_update_content = "fixed it"
    /\ Session(last.user).updated_items # <<>>
(***************************************************************************)
(* The walk of one (kind, repository) combination over a tracker whose     *)
(* open items are known: the pages the queries return, ITEMS_PER_PAGE      *)
(* items each, newest updated first                                        *)
(***************************************************************************)
\* the ages of the open items: not stale, and the stale ages of a walk
TrackerAges(kind) == {Threshold(kind)} \cup WalkAges(kind)

\* the open items of the repository in the order of the query
TrackerItems(kind) ==
    {items \in SeqsUpTo(TrackerAges(kind) \X WalkLogins,
                        MaxPages * MaxPageItems) :
        \A i \in 1..Len(items), j \in 1..Len(items) :
            i < j => items[i][1] <= items[j][1]}

\* the number of pages: one, empty, for a repository without open items
PageCount(items) ==
    IF items = <<>> THEN 1
    ELSE (Len(items) + MaxPageItems - 1) \div MaxPageItems

\* the answer to the request for page cursor + 1
PageBody(items, cursor) ==
    LET from == cursor * MaxPageItems + 1
        to == IF from + MaxPageItems - 1 < Len(items)
              THEN from + MaxPageItems - 1 ELSE Len(items)
    IN [tag |-> "page", nodes |-> SubSeq(items, from, to),
        hasNextPage |-> cursor + 1 < PageCount(items)]

\* "while has_next_page" of one repository with every request answered
RECURSIVE WalkCombination(_, _)
WalkCombination(c, items) ==
    LET after == AfterPage(c, PageBody(items, c.cursor))
    IN IF after.variant = "walk" /\ Combo(after) = Combo(c)
       THEN WalkCombination(after, items)
       ELSE after

\* the same pages classified and gathered one after the other to the last
RECURSIVE EveryPage(_, _, _, _, _)
EveryPage(reminders, kind, repo, items, cursor) ==
    LET gathered == AddPage(reminders, kind, repo, cursor,
                            PageBody(items, cursor).nodes, 1)
    IN IF PageBody(items, cursor).hasNextPage
       THEN EveryPage(gathered, kind, repo, items, cursor + 1)
       ELSE gathered

\* the (recipient, item, reason) tuples of the gathered reminders
Tuples(reminders) ==
    UNION {{<<reminders[i].github_username, item.number, item.reminder_reason>> :
               item \in Range(reminders[i].issues) \cup Range(reminders[i].prs)} :
             i \in 1..Len(reminders)}

InitTracker ==
    /\ now = 0
    /\ dicts = [i \in Objs |-> DeadDict]
    /\ lists = [i \in Objs |-> DeadList]
    /\ active_sessions = [u \in Users |-> 0]
    /\ handlers = NoHandlers
    /\ \E k \in 1..Len(Kinds) : \E items \in TrackerItems(Kinds[k]) :
          last = [kind |-> "tracker", item_kind |-> k, items |-> items,
                  gathered |-> {}, every_page |-> {}]
    /\ cycle = IdleCycle
    /\ log = <<>>
    /\ delivery_stats = NoStats

WalkTracker ==
    /\ last.kind = "tracker"
    /\ LET c == [variant |-> "walk", caller |-> "process_reminders",
                 queue |-> <<>>, all |-> <<>>, target |-> "",
                 kind |-> last.item_kind, repo |-> 1, cursor |-> 0,
                 floor |-> 0, reminders |-> <<>>]
           after == WalkCombination(c, last.items)
       IN last' = [last EXCEPT
                     !.kind = "walked",
                     !.gathered = Tuples(after.reminders),
                     !.every_page = Tuples(EveryPage(<<>>, Kinds[last.item_kind],
                                                     1, last.items, 0))]
    /\ UNCHANGED <<now, dicts, lists, active_sessions, handlers, cycle, log,
                   delivery_stats>>

NextTracker == WalkTracker

SpecTracker == InitTracker /\ [][NextTracker]_vars

\* C25: the walk of a combination over pages ordered newest updated first,
\* with its early exit, gathers the same (recipient, item, reason) tuples as
\* the walk of every page
EarlyExitLosesNothing ==
    last.kind = "walked" => last.gathered = last.every_page
(***************************************************************************)
(* Sessions replaced while a reply task is suspended                       *)
(***************************************************************************)
\* the task read a session that is no longer the one the store holds for
\* its recipient: the store's session was created after the task started
Overtaken(h) ==
    /\ h.pc # "idle"
    /\ active_sessions[h.user] # 0
    /\ active_sessions[h.user] # h.session

\* C26: a step of a reply task that started before the recipient's present
\* session was created leaves that session as it is: in the store, with its
\* stage, resolved items, pending content and selected index
NewSessionUntouched ==
    [][\A k \in HandlerIds :
          (Overtaken(handlers[k]) /\ handlers'[k] # handlers[k])
             => \A u \in Users :
                   handlers[k].user = u => Session(u)' = Session(u)]_vars
(***************************************************************************)
(* The sessions the store holds                                            *)
(***************************************************************************)
\* C28: replies processed one at a time, every session in the store between
\* two replies has items, has an item not yet resolved, and has only valid
\* indices among its resolved items
StoredSessionsUnfinished ==
    \A u \in Users :
        Session(u).exists =>
            /\ Session(u).update_items # <<>>
            /\ Unresolved(Session(u)) # <<>>
            /\ Range(Session(u).updated_items)
                  \subseteq 0..(Len(Session(u).update_items) - 1)

(***************************************************************************)
(* A session created over the one the recipient already has                *)
(***************************************************************************)
\* GitHubUpdateManager.create_update_session, with what the store held before
ReplaceBundles == {b \in Bundles : Len(b.issues) + Len(b.prs) <= 2}

ReplaceCreate(u) ==
    /\ \E b \in ReplaceBundles :
          /\ SetHeap(Collect(create_update_session(
                 Heap, handlers, u, GithubOf(u), b.issues, b.prs, now), handlers))
          /\ last' = [kind |-> "create", user |-> u, bundle |-> b, at |-> now,
                      before |-> [v \in Users |-> Session(v)]]
    /\ UNCHANGED <<now, handlers, cycle, log, delivery_stats>>

NextReplace ==
    \/ Tick
    \/ \E u \in Users : ReplaceCreate(u)
    \/ \E u \in Users : ExpiryReply(u)

SpecReplace == Init /\ [][NextReplace]_vars

\* the items of a bundle as a new session lists them
IssuesThenPRs(items, b) ==
    /\ Len(items) = Len(b.issues) + Len(b.prs)
    /\ \A i \in 1..Len(b.issues) :
          items[i] = [type |-> "issue", number |-> b.issues[i]]
    /\ \A i \in 1..Len(b.prs) :
          items[Len(b.issues) + i] = [type |-> "pr", number |-> b.prs[i]]

\* C29: no two recipients share a session, and after create_update_session
\* for a recipient that recipient's session is in stage
\* awaiting_initial_response, has no resolved item, no pending content and no
\* selected index, lists the issues of the new bundle and then its pull
\* requests, and is created at the time of the call; the sessions of the
\* other recipients that had not expired are as they were
CreateReplaces ==
    /\ \A u, v \in Users :
          (u # v /\ active_sessions[u] # 0)
             => /\ active_sessions[u] # active_sessions[v]
                /\ active_sessions[v] # 0
                      => dicts[active_sessions[u]].updated_items
                            # dicts[active_sessions[v]].updated_items
    /\ last.kind = "create" =>
          /\ Session(last.user).exists
          /\ Session(last.user).stage = "awaiting_initial_response"
          /\ Session(last.user).updated_items = <<>>
          /\ Session(last.user).pending_update_content = NoContent
          /\ Session(last.user).selected_item_index = None
          /\ IssuesThenPRs(Session(last.user).update_items, last.bundle)
          /\ Session(last.user).created_at = last.at
          /\ Session(last.user).github_username = GithubOf(last.user)
          /\ \A v \in Users \ {last.user} :
                (/\ last.before[v].exists
                 /\ last.at - last.before[v].created_at <= session_timeout_hours)
                   => Session(v) = last.before[v]

\* a session with a resolved item and pending content is replaced, later and
\* by another bundle, while the other recipient is in mid-conversation
CreateReplacesSeen ==
    /\ last.kind = "create"
    /\ last.before[last.user].exists
    /\ last.before[last.user].updated_items # <<>>
    /\ last.before[last.user].pending_update_content # NoContent
    /\ last.before[last.user].stage # "awaiting_initial_response"
    /\ last.before[last.user].created_at < last.at
    /\ ~IssuesThenPRs(last.before[last.user].update_items, last.bundle)
    /\ \E v \in Users \ {last.user} :
          /\ last.before[v].exists
          /\ last.before[v].stage # "awaiting_initial_response"
          /\ last.at - last.before[v].created_at <= session_timeout_hours

====
